---- MODULE Spec2Model ----
(***************************************************************************)
(* A state-machine model of backup-butler's sync machinery:                *)
(*   - the worker pool (internal/core/worker/pool.go) and the core backup  *)
(*     service that drains it,                                             *)
(*   - the version journal (internal/version/manager.go),                  *)
(*   - the semaphore-driven backup service (internal/backup/service.go),   *)
(*   - the context-aware copier (storage.Copier.Copy),                     *)
(*   - the directory processor (internal/processor/types.go) as the sync   *)
(*     command drives it.                                                  *)
(* Each subsystem has its own specification; the variables of the other    *)
(* subsystems stay at their initial value under it.                        *)
(***************************************************************************)
EXTENDS Integers, Sequences, FiniteSets, TLC

\* ------------------------------------------------------------------ bounds
NumTasks == 2
MaxWorkers == 2
MaxRetry == 2
MaxRuns == 2
MaxRecords == 2
MaxThreads == 2
MaxBlocks == 3
MaxSize == 2
MaxModTime == 3
BufferBlocks == 1
QuickHashBlocks == 1
NumScanDirs == 3

Tasks == 1..NumTasks

VARIABLES
  ctxDone,        \* the context passed to Execute / Backup / Copy is cancelled
  \* ---- worker pool (Pool, core Service.Backup)
  workers,        \* Pool.workers
  retryAttempts,  \* Pool.retryAttempts
  taskCh,         \* buffered channel of tasks, capacity workers
  taskChClosed,
  feedIdx,        \* feedTasks: index of the next task of the range loop
  feedPc,         \* feedTasks: "run" | "done"
  resultCh,       \* buffered channel of TaskResult, capacity len(tasks)
  resultClosed,
  wpc,            \* worker w: position in worker/processTask/executeWithRetry
  wtask,          \* worker w: the task it holds (0: none)
  attempt,        \* worker w: executeWithRetry's attempt
  wresult,        \* worker w: the TaskResult processTask returned
  execCount,      \* worker w: ExecuteTask invocations for the task it holds
  execFail,       \* worker w: those that returned an error
  produced,       \* per task: the TaskResults processTask returned for it
  bpc,            \* core Service.Backup: position
  received,       \* core Service.Backup: per task, the results ranged over so far
  bStarted,       \* versioner.StartNewVersion was called
  bCompleted,     \* versioner.CompleteVersion was called
  \* ---- backup service (internal/backup Service) and its version.Manager
  concurrency,    \* config.Concurrency: capacity of the semaphore
  sPc,            \* Service.Backup: position
  sErr,           \* Service.Backup: what it returned
  dPc,            \* processBackupTasks' dispatching goroutine: position
  dIdx,           \* its range index into tasks
  sem,            \* tokens held in the semaphore channel
  errChan,        \* errors buffered in errChan (capacity 1)
  doneChan,       \* doneChan is closed
  tpc,            \* per task goroutine: position in processTask / RecordFile
  terr,           \* per task goroutine: processTask returned an error
  rstatus,        \* per task goroutine: status argument of its RecordFile call
  rsize,          \* per task goroutine: size argument of its RecordFile call
  rfChanges,      \* per task goroutine: m.currentVer.Changes as it read it
  rfTotal,        \* per task goroutine: Stats.Total as it read it
  stats,          \* the BackupStats Service.stats points to
  statsPtr,       \* which *BackupStats Service.stats holds (a new one per swap)
  oldStats,       \* incrementStats: what each task goroutine loaded
  currentVer,     \* Manager.currentVer: NoVersion (nil) or the open version
  index,          \* Manager.index.Files: path -> FileMetadata (NoEntry: absent)
  savedIndex,     \* content of .versions/index.json
  versionFiles,   \* .versions/backups/<id>.json: id -> file
  \* ---- version.Manager driven by one sequential caller, with crashes
  jPc,            \* the caller's position in RecordFile / saveIndex / CompleteVersion
  jRuns,          \* versions started so far (the clock that names them)
  wStage,         \* os.WriteFile in progress: how far the file is written
  indexTmp,       \* .versions/index.json.tmp
  \* ---- directory processor (processFolders, ProcessDirectory)
  srcMaxThreads,  \* cfg.Storage.Source.MaxThreads
  tgtMaxThreads,  \* cfg.Storage.Target.MaxThreads
  pPc,            \* processFolders: position
  pFolder,        \* processFolders: index of the folder of the range loop
  pErr,           \* processFolders: what it returned
  pStack,         \* the ProcessDirectory calls in progress, innermost last
  dirErrs,        \* per directory: errors buffered in its errs channel
  dirState,       \* per directory: "none" | "started" | "finished"
  fpc,            \* per file goroutine: position
  pSem,           \* tokens held in p.sem
  trCurrent,      \* tracker.progress.Current: the directory it points to, 0 for nil
  trReported,     \* per directory: times FinishDirectory reported it complete
  trProcessed,    \* tracker.progress.Processed
  trDone,         \* per directory: Done of the DirectoryProgress made for it
  trUpdated,      \* the files whose goroutine has called UpdateProgress
  srcStorageType, \* cfg.Storage.Source.Type
  tgtStorageType, \* cfg.Storage.Target.Type
  \* ---- Copier.Copy of one file
  srcBlocks,      \* buffers the source file holds
  cPc,            \* Copy: position
  written,        \* Copy: buffers written so far
  dst,            \* the destination file
  cErr,           \* what Copy returned
  \* ---- comparison of one file pair
  cmpImpl,        \* "scanner" (Scanner.compareFiles) | "validator" (internal/validation)
  cmpLevel,       \* the configured validation level
  cmpSource,      \* FileInfo of the source file
  cmpTarget,      \* FileInfo of the target file, NilFile when there is none
  cmpPc,          \* position in the comparison
  cmpStatus,      \* FileComparison.Status / ComparisonResult.Equal
  cmpCompLevel,   \* FileComparison.Level as printed by printResults
  cmpEntered,     \* the levels that did work on the pair
  cmpEarlier,     \* the level and verdict of an earlier comparison of the pair
  \* ---- consecutive sync runs over one file
  syncImpl,       \* which sync path handles the file
  deepDuplicateCheck, \* config.DeepDuplicateCheck
  syncSrc,        \* the source file
  syncTgt,        \* the target file, NoTarget when there is none
  lastVersion,    \* what GetFileLastVersion returns for the file
  syncRun,        \* number of the run in progress
  syncPc,         \* position within the run
  outcomes,       \* the file's outcome in each run so far
  \* ---- check runs (Scanner.Compare)
  chkSource,      \* the files the source tree holds
  chkTarget,      \* the files the target tree holds
  chkRun,         \* number of the check run in progress
  chkPhase,       \* Compare: "source" loop | "target" loop | "done"
  chkLeft,        \* map keys the current range has not yielded yet
  comparisons,    \* per run: the FileComparisons appended so far
  dirsVisited,    \* per run: the source directories in the order visited
  \* ---- scan of the source tree (Scanner.Scan, Service.scanSourceDirectory)
  scanImpl,       \* "scanner" (scan.Scanner) | "service" (internal/backup Service)
  excludePatterns, \* ScannerOptions.ExcludePatterns / config.ExcludePatterns
  broken,         \* the entries whose lstat / ReadDir / Info fails
  scanPc,         \* position: "start" | "count" | "scan" | "walk" | "done"
  scanTodo,       \* the entries the pass in progress has still to visit
  totalFiles,     \* Progress.TotalFiles
  scannedFiles,   \* Progress.ScannedFiles
  scannedDirs,    \* Progress.ScannedDirs
  excludedFiles,  \* Progress.ExcludedFiles
  excludedDirs,   \* Progress.ExcludedDirs
  scanErrors,     \* Progress.Errors
  scanStats,      \* Scanner.stats: directory -> the files recorded for it
  svcTasks,       \* the BackupTasks scanSourceDirectory collected
  scanResult,     \* what the scan returned: "none" | "ok" | "error"
  \* ---- run history (version.Manager / FileVersionManager over many runs)
  hImpl,          \* "manager" (version.Manager) | "filevm" (FileVersionManager)
  hStored,        \* the version files earlier invocations left: ids 1..hStored
  hCorrupt,       \* the stored file that cannot be parsed: "none" | "index" | "version"
  hPc,            \* "init" | "ready" | "failed" (the constructor returned an error)
  hSecond,        \* the wall clock, in seconds
  hInstant,       \* the instant of the last time.Now() taken for a StartTime
  hCurrent,       \* currentVer: NoRecord (nil) or the version in progress
  hFiles,         \* the version files on disk: id -> the record the file holds
  hVersions,      \* FileVersionManager.versions
  hStarted,       \* the versions StartNewVersion returned, in order
  hHistory,       \* what the last listing of the versions showed
  hHistErr,       \* GetVersions returned an error
  \* ---- dry run (CLI --dry-run, RunRsync's analysis operations)
  dryImpl,        \* "cli" (Factory + core Service.DryRun) | "rsync" (RunRsync)
  dryDeep,        \* config.DeepDuplicateCheck
  dryTasks,       \* per task: what Exists / GetMetadata / CalculateChecksum report
  includeDirs,    \* RsyncOptions.IncludeDirs
  dryDirs0,       \* the directories that existed before the run
  dryDirs,        \* the directories that exist now
  dryPc,          \* "start" | "service" | "tasks" | "dirs" | "done"
  dryIdx,         \* index of the next task / include directory
  dryStats,       \* DryRunStats
  dryErr,         \* the error the run returned, "none" when nil
  \* ---- per-directory statistics of a run (Manager.RecordFile)
  dsFolders,      \* config.FoldersToBackup
  dsPc,           \* "start" | "open" (a version is in progress)
  dsDirectories,  \* currentVer.Stats.Directories: folder -> DirectoryStats
  dsTotal,        \* currentVer.Stats.Total
  dsRecorded      \* the files RecordFile was called for, with their status

poolVars == <<workers, retryAttempts, taskCh, taskChClosed, feedIdx, feedPc,
              resultCh, resultClosed, wpc, wtask, attempt, wresult,
              execCount, execFail, produced, bpc, received, bStarted, bCompleted>>

svcVars == <<concurrency, sPc, sErr, dPc, dIdx, sem, errChan, doneChan, tpc, terr,
             rstatus, rsize, rfChanges, rfTotal, stats, statsPtr, oldStats>>

journalVars == <<currentVer, index, savedIndex, versionFiles>>

jdVars == <<jPc, jRuns, wStage, indexTmp>>

trackVars == <<trCurrent, trReported, trProcessed, trDone, trUpdated>>

storageVars == <<srcStorageType, tgtStorageType>>

procVars == <<srcMaxThreads, tgtMaxThreads, pPc, pFolder, pErr, pStack, dirErrs,
              dirState, fpc, pSem, trackVars, storageVars>>

copyVars == <<srcBlocks, cPc, written, dst, cErr>>

cmpVars == <<cmpImpl, cmpLevel, cmpSource, cmpTarget, cmpPc, cmpStatus, cmpCompLevel,
             cmpEntered, cmpEarlier>>

syncVars == <<syncImpl, deepDuplicateCheck, syncSrc, syncTgt, lastVersion, syncRun,
              syncPc, outcomes>>

checkVars == <<chkSource, chkTarget, chkRun, chkPhase, chkLeft, comparisons, dirsVisited>>

scanVars == <<scanImpl, excludePatterns, broken, scanPc, scanTodo, totalFiles,
              scannedFiles, scannedDirs, excludedFiles, excludedDirs, scanErrors,
              scanStats, svcTasks, scanResult>>

histVars == <<hImpl, hStored, hCorrupt, hPc, hSecond, hInstant, hCurrent, hFiles,
              hVersions, hStarted, hHistory, hHistErr>>

dryVars == <<dryImpl, dryDeep, dryTasks, includeDirs, dryDirs0, dryDirs, dryPc, dryIdx,
             dryStats, dryErr>>

dsVars == <<dsFolders, dsPc, dsDirectories, dsTotal, dsRecorded>>

vars == <<ctxDone, poolVars, svcVars, journalVars, jdVars, procVars, copyVars,
         cmpVars,
         syncVars,
         checkVars,
         scanVars,
         histVars,
         dryVars,
         dsVars>>

NoResult == [task |-> 0, status |-> "none", err |-> "none"]

TaskResult(t, s, e) == [task |-> t, status |-> s, err |-> e]

WorkerIds == 1..MaxWorkers

\* NewPool: workers below minWorkers are raised to minWorkers.
minWorkers == 1

NewPoolWorkers(n) == IF n < minWorkers THEN minWorkers ELSE n

InitPool ==
  /\ workers \in {NewPoolWorkers(n) : n \in 0..MaxWorkers}
  /\ retryAttempts \in 0..MaxRetry
  /\ taskCh = <<>>
  /\ taskChClosed = FALSE
  /\ feedIdx = 1
  /\ feedPc = "idle"
  /\ resultCh = <<>>
  /\ resultClosed = FALSE
  /\ wpc = [w \in WorkerIds |-> "idle"]
  /\ wtask = [w \in WorkerIds |-> 0]
  /\ attempt = [w \in WorkerIds |-> 0]
  /\ wresult = [w \in WorkerIds |-> NoResult]
  /\ execCount = [w \in WorkerIds |-> 0]
  /\ execFail = [w \in WorkerIds |-> 0]
  /\ produced = [t \in Tasks |-> <<>>]
  /\ bpc = "create"
  /\ received = [t \in Tasks |-> <<>>]
  /\ bStarted = FALSE
  /\ bCompleted = FALSE

\* The cancel function of the context handed to the run (cmd/main.go: the
\* interrupt handler calls cancel()).
Cancel ==
  /\ ~ctxDone
  /\ ctxDone' = TRUE
  /\ UNCHANGED <<dsVars, dryVars, histVars, scanVars, checkVars, cmpVars, syncVars, poolVars, svcVars, journalVars, jdVars, procVars, copyVars>>

\* ------------------------------------------------------------ worker pool
\* executeWithRetry's loop condition: attempt <= p.retryAttempts.
RetryContinuesOneMore(a, r) == a <= r + 1

RetryContinues(a, r) == a <= r

\* The backoff branch is taken only when another attempt remains.
BackoffBefore(a, r) == a < r

Started(w) == w <= workers

\* wg.Wait() taken as satisfied by the first worker that is done.
AnyWorkerDone ==
  \E w \in WorkerIds : Started(w) /\ wpc[w] \in {"done", "stopped"}

\* wg.Wait(): every started worker ran its deferred wg.Done(), whether its range
\* ended ("done") or it returned on ctx.Done() ("stopped").
AllWorkersDone ==
  \A w \in WorkerIds : Started(w) => wpc[w] \in {"done", "stopped"}

\* core Service.Backup: taskMgr.CreateTasks fails, Backup returns the error
\* before any version is started.
BackupCreateTasksFail ==
  /\ bpc = "create"
  /\ bpc' = "returned"
  /\ UNCHANGED <<dsVars, dryVars, histVars, scanVars, checkVars, cmpVars, syncVars, svcVars, journalVars, jdVars, procVars, copyVars, ctxDone,
                 workers, retryAttempts, taskCh, taskChClosed, feedIdx,
                 feedPc, resultCh, resultClosed, wpc, wtask, attempt, wresult,
                 execCount, execFail, produced, received, bStarted, bCompleted>>

\* core Service.Backup: CreateTasks succeeds, versioner.StartNewVersion, then
\* workerPool.Execute, which starts the workers and the feeder.
BackupStart ==
  /\ bpc = "create"
  /\ bpc' = "consume"
  /\ bStarted' = TRUE
  /\ wpc' = [w \in WorkerIds |-> IF Started(w) THEN "recv" ELSE "off"]
  /\ feedPc' = "run"
  /\ UNCHANGED <<dsVars, dryVars, histVars, scanVars, checkVars, cmpVars, syncVars, svcVars, journalVars, jdVars, procVars, copyVars, ctxDone,
                 workers, retryAttempts, taskCh, taskChClosed, feedIdx,
                 resultCh, resultClosed, wtask, attempt, wresult,
                 execCount, execFail, produced, received, bCompleted>>

\* feedTasks: select { taskCh <- task ; <-ctx.Done(): return }.
FeedSend ==
  /\ feedPc = "run"
  /\ feedIdx <= NumTasks
  /\ Len(taskCh) < workers
  /\ taskCh' = Append(taskCh, feedIdx)
  /\ feedIdx' = feedIdx + 1
  /\ UNCHANGED <<dsVars, dryVars, histVars, scanVars, checkVars, cmpVars, syncVars, svcVars, journalVars, jdVars, procVars, copyVars, ctxDone,
                 workers, retryAttempts, taskChClosed, feedPc,
                 resultCh, resultClosed, wpc, wtask, attempt, wresult,
                 execCount, execFail, produced, bpc, received, bStarted, bCompleted>>

FeedCancelled ==
  /\ feedPc = "run"
  /\ feedIdx <= NumTasks
  /\ ctxDone
  /\ feedPc' = "done"
  /\ taskChClosed' = TRUE
  /\ UNCHANGED <<dsVars, dryVars, histVars, scanVars, checkVars, cmpVars, syncVars, svcVars, journalVars, jdVars, procVars, copyVars, ctxDone,
                 workers, retryAttempts, taskCh, feedIdx,
                 resultCh, resultClosed, wpc, wtask, attempt, wresult,
                 execCount, execFail, produced, bpc, received, bStarted, bCompleted>>

\* feedTasks: the range loop is over; the deferred close(taskCh) runs.
FeedFinish ==
  /\ feedPc = "run"
  /\ feedIdx > NumTasks
  /\ feedPc' = "done"
  /\ taskChClosed' = TRUE
  /\ UNCHANGED <<dsVars, dryVars, histVars, scanVars, checkVars, cmpVars, syncVars, svcVars, journalVars, jdVars, procVars, copyVars, ctxDone,
                 workers, retryAttempts, taskCh, feedIdx,
                 resultCh, resultClosed, wpc, wtask, attempt, wresult,
                 execCount, execFail, produced, bpc, received, bStarted, bCompleted>>

\* worker: for task := range taskCh.
WorkerRecv(w) ==
  /\ wpc[w] = "recv"
  /\ taskCh # <<>>
  /\ wtask' = [wtask EXCEPT ![w] = Head(taskCh)]
  /\ taskCh' = Tail(taskCh)
  /\ wpc' = [wpc EXCEPT ![w] = "check"]
  /\ UNCHANGED <<dsVars, dryVars, histVars, scanVars, checkVars, cmpVars, syncVars, svcVars, journalVars, jdVars, procVars, copyVars, ctxDone,
                 workers, retryAttempts, taskChClosed, feedIdx, feedPc,
                 resultCh, resultClosed, attempt, wresult,
                 execCount, execFail, produced, bpc, received, bStarted, bCompleted>>

\* worker: the range ends on a closed, drained channel; deferred wg.Done().
WorkerExit(w) ==
  /\ wpc[w] = "recv"
  /\ taskCh = <<>>
  /\ taskChClosed
  /\ wpc' = [wpc EXCEPT ![w] = "done"]
  /\ UNCHANGED <<dsVars, dryVars, histVars, scanVars, checkVars, cmpVars, syncVars, svcVars, journalVars, jdVars, procVars, copyVars, ctxDone,
                 workers, retryAttempts, taskCh, taskChClosed, feedIdx,
                 feedPc, resultCh, resultClosed, wtask, attempt, wresult,
                 execCount, execFail, produced, bpc, received, bStarted, bCompleted>>

\* worker: select { <-ctx.Done(): return ; default: processTask }.
WorkerCheckCancelled(w) ==
  /\ wpc[w] = "check"
  /\ ctxDone
  /\ wpc' = [wpc EXCEPT ![w] = "stopped"]
  /\ UNCHANGED <<dsVars, dryVars, histVars, scanVars, checkVars, cmpVars, syncVars, svcVars, journalVars, jdVars, procVars, copyVars, ctxDone,
                 workers, retryAttempts, taskCh, taskChClosed, feedIdx,
                 feedPc, resultCh, resultClosed, wtask, attempt, wresult,
                 execCount, execFail, produced, bpc, received, bStarted, bCompleted>>

\* processTask returns r for the task worker w holds.
Return(w, r) ==
  /\ wresult' = [wresult EXCEPT ![w] = r]
  /\ produced' = [produced EXCEPT ![wtask[w]] = Append(@, r)]
  /\ attempt' = [attempt EXCEPT ![w] = 0]
  /\ wpc' = [wpc EXCEPT ![w] = "send"]

\* ... default: processTask: taskExecutor.ShouldSkipFile(task) returns
\* (_, err), (true, nil) or (false, nil); in the last case executeWithRetry
\* starts with attempt := 1.
WorkerCheckDefault(w) ==
  /\ wpc[w] = "check"
  /\ ~ctxDone
  /\ \E outcome \in {"err", "skip", "run"} :
       \/ /\ outcome = "err"
          /\ Return(w, TaskResult(wtask[w], "failed", "skip check failed"))
       \/ /\ outcome = "skip"
          /\ Return(w, TaskResult(wtask[w], "skipped", "none"))
       \/ /\ outcome = "run"
          /\ attempt' = [attempt EXCEPT ![w] = 1]
          /\ wpc' = [wpc EXCEPT ![w] = "loop"]
          /\ UNCHANGED <<wresult, produced>>
  /\ UNCHANGED <<dsVars, dryVars, histVars, scanVars, checkVars, cmpVars, syncVars, svcVars, journalVars, jdVars, procVars, copyVars, ctxDone,
                 workers, retryAttempts, taskCh, taskChClosed, feedIdx,
                 feedPc, resultCh, resultClosed, wtask,
                 execCount, execFail, bpc, received, bStarted, bCompleted>>

\* executeWithRetry: the loop condition fails; "task failed after %d attempts".
RetryExhausted(w) ==
  /\ wpc[w] = "loop"
  /\ ~RetryContinues(attempt[w], retryAttempts)
  /\ Return(w, TaskResult(wtask[w], "failed", "attempts exhausted"))
  /\ UNCHANGED <<dsVars, dryVars, histVars, scanVars, checkVars, cmpVars, syncVars, svcVars, journalVars, jdVars, procVars, copyVars, ctxDone,
                 workers, retryAttempts, taskCh, taskChClosed, feedIdx,
                 feedPc, resultCh, resultClosed, wtask,
                 execCount, execFail, bpc, received, bStarted, bCompleted>>

\* executeWithRetry: select { <-ctx.Done(): return ctx.Err() ; default: ... }.
RetryCancelled(w) ==
  /\ wpc[w] = "loop"
  /\ RetryContinues(attempt[w], retryAttempts)
  /\ ctxDone
  /\ Return(w, TaskResult(wtask[w], "failed", "cancelled"))
  /\ UNCHANGED <<dsVars, dryVars, histVars, scanVars, checkVars, cmpVars, syncVars, svcVars, journalVars, jdVars, procVars, copyVars, ctxDone,
                 workers, retryAttempts, taskCh, taskChClosed, feedIdx,
                 feedPc, resultCh, resultClosed, wtask,
                 execCount, execFail, bpc, received, bStarted, bCompleted>>

\* executeWithRetry, default branch: taskExecutor.ExecuteTask(task) is invoked
\* and returns nil: executeWithRetry returns nil, processTask reports
\* "completed".  (ExecuteTask takes no context: a cancellation raised while it
\* runs is seen only at the next select.)
ExecuteTaskOk(w) ==
  /\ wpc[w] = "loop"
  /\ RetryContinues(attempt[w], retryAttempts)
  /\ ~ctxDone
  /\ execCount' = [execCount EXCEPT ![w] = @ + 1]
  /\ Return(w, TaskResult(wtask[w], "completed", "none"))
  /\ UNCHANGED <<dsVars, dryVars, histVars, scanVars, checkVars, cmpVars, syncVars, svcVars, journalVars, jdVars, procVars, copyVars, ctxDone,
                 workers, retryAttempts, taskCh, taskChClosed, feedIdx,
                 feedPc, resultCh, resultClosed, wtask,
                 execFail, bpc, received, bStarted, bCompleted>>

\* ExecuteTask is invoked and returns an error: lastErr = err; back off when
\* an attempt remains, else go round the loop (attempt++).
ExecuteTaskErr(w) ==
  /\ wpc[w] = "loop"
  /\ RetryContinues(attempt[w], retryAttempts)
  /\ ~ctxDone
  /\ execCount' = [execCount EXCEPT ![w] = @ + 1]
  /\ execFail' = [execFail EXCEPT ![w] = @ + 1]
  /\ IF BackoffBefore(attempt[w], retryAttempts)
       THEN /\ wpc' = [wpc EXCEPT ![w] = "backoff"]
            /\ UNCHANGED attempt
       ELSE /\ wpc' = [wpc EXCEPT ![w] = "loop"]
            /\ attempt' = [attempt EXCEPT ![w] = @ + 1]
  /\ UNCHANGED <<dsVars, dryVars, histVars, scanVars, checkVars, cmpVars, syncVars, svcVars, journalVars, jdVars, procVars, copyVars, ctxDone,
                 workers, retryAttempts, taskCh, taskChClosed, feedIdx,
                 feedPc, resultCh, resultClosed, wtask, wresult,
                 produced, bpc, received, bStarted, bCompleted>>

\* executeWithRetry: select { <-ctx.Done(): return ctx.Err() ;
\*                            <-time.After(backoff + jitter): }.
BackoffElapsed(w) ==
  /\ wpc[w] = "backoff"
  /\ wpc' = [wpc EXCEPT ![w] = "loop"]
  /\ attempt' = [attempt EXCEPT ![w] = @ + 1]
  /\ UNCHANGED <<dsVars, dryVars, histVars, scanVars, checkVars, cmpVars, syncVars, svcVars, journalVars, jdVars, procVars, copyVars, ctxDone,
                 workers, retryAttempts, taskCh, taskChClosed, feedIdx,
                 feedPc, resultCh, resultClosed, wtask, wresult,
                 execCount, execFail, produced, bpc, received, bStarted, bCompleted>>

BackoffCancelled(w) ==
  /\ wpc[w] = "backoff"
  /\ ctxDone
  /\ Return(w, TaskResult(wtask[w], "failed", "cancelled"))
  /\ UNCHANGED <<dsVars, dryVars, histVars, scanVars, checkVars, cmpVars, syncVars, svcVars, journalVars, jdVars, procVars, copyVars, ctxDone,
                 workers, retryAttempts, taskCh, taskChClosed, feedIdx,
                 feedPc, resultCh, resultClosed, wtask,
                 execCount, execFail, bpc, received, bStarted, bCompleted>>

\* worker: select { resultCh <- result ; <-ctx.Done(): return }.  resultCh has
\* room for len(tasks) results.
WorkerSend(w) ==
  /\ wpc[w] = "send"
  /\ Len(resultCh) < NumTasks
  /\ resultCh' = Append(resultCh, wresult[w])
  /\ wpc' = [wpc EXCEPT ![w] = "recv"]
  /\ wtask' = [wtask EXCEPT ![w] = 0]
  /\ wresult' = [wresult EXCEPT ![w] = NoResult]
  /\ execCount' = [execCount EXCEPT ![w] = 0]
  /\ execFail' = [execFail EXCEPT ![w] = 0]
  /\ UNCHANGED <<dsVars, dryVars, histVars, scanVars, checkVars, cmpVars, syncVars, svcVars, journalVars, jdVars, procVars, copyVars, ctxDone,
                 workers, retryAttempts, taskCh, taskChClosed, feedIdx,
                 feedPc, resultClosed, attempt,
                 produced, bpc, received, bStarted, bCompleted>>

WorkerSendCancelled(w) ==
  /\ wpc[w] = "send"
  /\ ctxDone
  /\ wpc' = [wpc EXCEPT ![w] = "stopped"]
  /\ UNCHANGED <<dsVars, dryVars, histVars, scanVars, checkVars, cmpVars, syncVars, svcVars, journalVars, jdVars, procVars, copyVars, ctxDone,
                 workers, retryAttempts, taskCh, taskChClosed, feedIdx,
                 feedPc, resultCh, resultClosed, wtask, attempt, wresult,
                 execCount, execFail, produced, bpc, received, bStarted, bCompleted>>

\* Execute: go func() { wg.Wait(); close(resultCh) }().
CloseResults ==
  /\ bpc = "consume"
  /\ ~resultClosed
  /\ AllWorkersDone
  /\ resultClosed' = TRUE
  /\ UNCHANGED <<dsVars, dryVars, histVars, scanVars, checkVars, cmpVars, syncVars, svcVars, journalVars, jdVars, procVars, copyVars, ctxDone,
                 workers, retryAttempts, taskCh, taskChClosed, feedIdx,
                 feedPc, resultCh, wpc, wtask, attempt, wresult,
                 execCount, execFail, produced, bpc, received, bStarted, bCompleted>>

\* core Service.Backup: for result := range resultCh.
BackupReceive ==
  /\ bpc = "consume"
  /\ resultCh # <<>>
  /\ received' = [received EXCEPT ![Head(resultCh).task] = Append(@, Head(resultCh))]
  /\ resultCh' = Tail(resultCh)
  /\ UNCHANGED <<dsVars, dryVars, histVars, scanVars, checkVars, cmpVars, syncVars, svcVars, journalVars, jdVars, procVars, copyVars, ctxDone,
                 workers, retryAttempts, taskCh, taskChClosed, feedIdx,
                 feedPc, resultClosed, wpc, wtask, attempt, wresult,
                 execCount, execFail, produced, bpc, bStarted, bCompleted>>

\* core Service.Backup: the range ends; versioner.CompleteVersion(stats) is
\* called and Backup returns nil.
BackupComplete ==
  /\ bpc = "consume"
  /\ resultCh = <<>>
  /\ resultClosed
  /\ bCompleted' = TRUE
  /\ bpc' = "returned"
  /\ UNCHANGED <<dsVars, dryVars, histVars, scanVars, checkVars, cmpVars, syncVars, svcVars, journalVars, jdVars, procVars, copyVars, ctxDone,
                 workers, retryAttempts, taskCh, taskChClosed, feedIdx,
                 feedPc, resultCh, resultClosed, wpc, wtask, attempt, wresult,
                 execCount, execFail, produced, received, bStarted>>

NextPool ==
  \/ Cancel
  \/ BackupCreateTasksFail
  \/ BackupStart
  \/ FeedSend
  \/ FeedCancelled
  \/ FeedFinish
  \/ \E w \in WorkerIds :
       \/ WorkerRecv(w)
       \/ WorkerExit(w)
       \/ WorkerCheckCancelled(w)
       \/ WorkerCheckDefault(w)
       \/ RetryExhausted(w)
       \/ RetryCancelled(w)
       \/ ExecuteTaskOk(w)
       \/ ExecuteTaskErr(w)
       \/ BackoffElapsed(w)
       \/ BackoffCancelled(w)
       \/ WorkerSend(w)
       \/ WorkerSendCancelled(w)
  \/ CloseResults
  \/ BackupReceive
  \/ BackupComplete

\* ------------------------------------------------------- version journal
MaxConcurrency == 2

ZeroTotal == [TotalFiles |-> 0, FilesCopied |-> 0, FilesSkipped |-> 0, FilesFailed |-> 0]

\* Manager.currentVer = nil.
NoVersion == [open |-> FALSE, ID |-> 0, Changes |-> <<>>, Total |-> ZeroTotal]

\* index.Files has no entry for the path.
NoEntry == [LastBackupID |-> 0, Size |-> 0, ModTime |-> 0, Checksum |-> "absent"]

\* The entry a previous run left for a file it copied.
PriorEntry == [LastBackupID |-> 0, Size |-> 1, ModTime |-> 1, Checksum |-> "sha"]

\* The run ids: StartNewVersion names a version after the clock's second.
VersionIds == 1..MaxRuns

\* A file on disk: how much of the last write reached it, and the data written.
NoFile == [written |-> "absent", data |-> <<>>]

File(w, d) == [written |-> w, data |-> d]

\* StartNewVersion: a version with the given ID, no changes, zeroed stats.
NewVersion(id) == [open |-> TRUE, ID |-> id, Changes |-> <<>>, Total |-> ZeroTotal]

\* RecordFile: the FileChange it appends; Checksum is set only for "copied".
FileChange(path, status, size, checksum) ==
  [Path |-> path, Action |-> status, Size |-> size,
   Checksum |-> IF status = "copied" THEN checksum ELSE ""]

\* A per-action counter that leaves failed files uncounted.
CountActionWithoutFailed(total, status) ==
  CASE status = "copied"  -> [total EXCEPT !.FilesCopied = @ + 1]
    [] status = "skipped" -> [total EXCEPT !.FilesSkipped = @ + 1]
    [] OTHER -> total

\* RecordFile: the per-action counter of Stats.Total bumped for a status.
CountAction(total, status) ==
  CASE status = "copied"  -> [total EXCEPT !.FilesCopied = @ + 1]
    [] status = "skipped" -> [total EXCEPT !.FilesSkipped = @ + 1]
    [] status = "failed"  -> [total EXCEPT !.FilesFailed = @ + 1]
    [] OTHER -> total

\* RecordFile, "Update file index": m.index.Files[path] = FileMetadata{...},
\* whatever the status.
RecordFileIndex(idx, path, status, id, size, modTime, checksum) ==
  [idx EXCEPT ![path] =
     [LastBackupID |-> id, Size |-> size, ModTime |-> modTime, Checksum |-> checksum]]

\* What processTask passes as checksum: meta.Checksum for copied and skipped,
\* "" for failed.
ChecksumArg(status) == IF status = "failed" THEN "" ELSE "sha"

InitJournal ==
  /\ currentVer = NoVersion
  /\ index \in {[t \in Tasks |-> NoEntry], [t \in Tasks |-> PriorEntry]}
  /\ savedIndex = index
  /\ versionFiles = [id \in VersionIds |-> NoFile]

\* ------------------------- version journal: one caller, with crashes
\* NewManager: maxVersions.
maxVersions == 30

\* os.WriteFile(name, data, perm) opens name with O_CREATE|O_TRUNC, writes data
\* and closes: the file is empty, then partly written, then complete.
WriteStages == <<"empty", "partial", "complete">>

\* What RecordFile's callers pass as size: the file's size, 0 when the file's
\* metadata could not be read.
SizeArgs(status) == IF status = "failed" THEN {0, 1} ELSE {1}

Statuses == {"copied", "skipped", "failed"}

InitJournalDriver ==
  /\ jPc = "ready"
  /\ jRuns = 0
  /\ wStage = 0
  /\ indexTmp = NoFile

\* StartNewVersion: m.currentVer = version, whatever currentVer was.
JStartNewVersion ==
  /\ jPc = "ready"
  /\ jRuns < MaxRuns
  /\ jRuns' = jRuns + 1
  /\ currentVer' = NewVersion(jRuns + 1)
  /\ UNCHANGED <<dsVars, dryVars, histVars, scanVars, checkVars, cmpVars, syncVars, ctxDone, poolVars, svcVars, procVars, copyVars, index, savedIndex,
                 versionFiles, jPc, wStage, indexTmp>>

\* RecordFile up to its call of saveIndex: the change is appended, the totals
\* are counted, the index entry of the path is written.
JRecordFile(path, status) ==
  /\ jPc = "ready"
  /\ currentVer.open
  /\ Len(currentVer.Changes) < MaxRecords
  /\ \E size \in SizeArgs(status) :
       /\ currentVer' =
            [currentVer EXCEPT
               !.Changes = Append(@, FileChange(path, status, size, ChecksumArg(status))),
               !.Total = CountAction([@ EXCEPT !.TotalFiles = @ + 1], status)]
       /\ index' = RecordFileIndex(index, path, status, currentVer.ID, size, size,
                                   ChecksumArg(status))
  /\ jPc' = "si_write"
  /\ wStage' = 0
  /\ UNCHANGED <<dsVars, dryVars, histVars, scanVars, checkVars, cmpVars, syncVars, ctxDone, poolVars, svcVars, procVars, copyVars, savedIndex,
                 versionFiles, jRuns, indexTmp>>

\* saveIndex: os.WriteFile(tempPath, data, 0644), one stage further.
SaveIndexWriteTmp ==
  /\ jPc = "si_write"
  /\ wStage < Len(WriteStages)
  /\ wStage' = wStage + 1
  /\ indexTmp' = File(WriteStages[wStage + 1], index)
  /\ UNCHANGED <<dsVars, dryVars, histVars, scanVars, checkVars, cmpVars, syncVars, ctxDone, poolVars, svcVars, procVars, copyVars, journalVars, jPc, jRuns>>

\* saveIndex: os.Rename(tempPath, indexPath); RecordFile returns.
SaveIndexRename ==
  /\ jPc = "si_write"
  /\ wStage = Len(WriteStages)
  /\ savedIndex' = indexTmp.data
  /\ indexTmp' = NoFile
  /\ wStage' = 0
  /\ jPc' = "ready"
  /\ UNCHANGED <<dsVars, dryVars, histVars, scanVars, checkVars, cmpVars, syncVars, ctxDone, poolVars, svcVars, procVars, copyVars, currentVer, index,
                 versionFiles, jRuns>>

\* CompleteVersion up to its os.WriteFile: EndTime is set, the version marshalled.
JCompleteVersion ==
  /\ jPc = "ready"
  /\ currentVer.open
  /\ jPc' = "cv_write"
  /\ wStage' = 0
  /\ UNCHANGED <<dsVars, dryVars, histVars, scanVars, checkVars, cmpVars, syncVars, ctxDone, poolVars, svcVars, procVars, copyVars, journalVars, jRuns,
                 indexTmp>>

\* CompleteVersion: os.WriteFile(versionFile, data, 0644), one stage further.
CompleteVersionWriteFile ==
  /\ jPc = "cv_write"
  /\ wStage < Len(WriteStages)
  /\ wStage' = wStage + 1
  /\ versionFiles' = [versionFiles EXCEPT
                        ![currentVer.ID] = File(WriteStages[wStage + 1], currentVer)]
  /\ UNCHANGED <<dsVars, dryVars, histVars, scanVars, checkVars, cmpVars, syncVars, ctxDone, poolVars, svcVars, procVars, copyVars, currentVer, index,
                 savedIndex, jPc, jRuns, indexTmp>>

\* cleanupOldVersions: the version files sorted by name, newest first; those
\* after the first maxVersions are removed.
ExcessVersions(present) ==
  {id \in present : Cardinality({j \in present : j > id}) >= maxVersions}

CleanupOldVersions(files) ==
  LET present == {id \in VersionIds : files[id].written # "absent"}
      kept == present \ ExcessVersions(present)
  IN [id \in VersionIds |-> IF id \in kept THEN files[id] ELSE NoFile]

\* CompleteVersion after the write: cleanupOldVersions, m.currentVer = nil.
CompleteVersionCleanup ==
  /\ jPc = "cv_write"
  /\ wStage = Len(WriteStages)
  /\ versionFiles' = CleanupOldVersions(versionFiles)
  /\ currentVer' = NoVersion
  /\ wStage' = 0
  /\ jPc' = "ready"
  /\ UNCHANGED <<dsVars, dryVars, histVars, scanVars, checkVars, cmpVars, syncVars, ctxDone, poolVars, svcVars, procVars, copyVars, index, savedIndex,
                 jRuns, indexTmp>>

\* The process is killed: the files stay as they are.
Crash ==
  /\ jPc \in {"ready", "si_write", "cv_write"}
  /\ jPc' = "crashed"
  /\ wStage' = 0
  /\ UNCHANGED <<dsVars, dryVars, histVars, scanVars, checkVars, cmpVars, syncVars, ctxDone, poolVars, svcVars, procVars, copyVars, journalVars, jRuns,
                 indexTmp>>

\* The next invocation: NewManager, loadIndex reads index.json.
JReopen ==
  /\ jPc = "crashed"
  /\ index' = savedIndex
  /\ currentVer' = NoVersion
  /\ jPc' = "ready"
  /\ UNCHANGED <<dsVars, dryVars, histVars, scanVars, checkVars, cmpVars, syncVars, ctxDone, poolVars, svcVars, procVars, copyVars, savedIndex,
                 versionFiles, jRuns, wStage, indexTmp>>

NextJournal ==
  \/ JStartNewVersion
  \/ \E path \in Tasks, status \in Statuses : JRecordFile(path, status)
  \/ SaveIndexWriteTmp
  \/ SaveIndexRename
  \/ JCompleteVersion
  \/ CompleteVersionWriteFile
  \/ CompleteVersionCleanup
  \/ Crash
  \/ JReopen

\* -------------------------------------------- backup service (semaphore)
ZeroStats == [FilesProcessed |-> 0, FilesCopied |-> 0, FilesSkipped |-> 0, FilesFailed |-> 0]

\* A task goroutine that has not loaded s.stats.
NoLoad == [ptr |-> 0, val |-> ZeroStats]

InitSvc ==
  /\ concurrency \in 1..MaxConcurrency
  /\ sPc = "start"
  /\ sErr = "none"
  /\ dPc = "idle"
  /\ dIdx = 1
  /\ sem = 0
  /\ errChan = 0
  /\ doneChan = FALSE
  /\ tpc = [t \in Tasks |-> "none"]
  /\ terr = [t \in Tasks |-> FALSE]
  /\ rstatus = [t \in Tasks |-> "none"]
  /\ rsize = [t \in Tasks |-> 0]
  /\ rfChanges = [t \in Tasks |-> <<>>]
  /\ rfTotal = [t \in Tasks |-> 0]
  /\ stats = ZeroStats
  /\ statsPtr = 0
  /\ oldStats = [t \in Tasks |-> NoLoad]

\* incrementStats: load, copy, apply, CompareAndSwap until it succeeds.
IncrementStats(st, status) ==
  CASE status = "copied"  -> [st EXCEPT !.FilesProcessed = @ + 1, !.FilesCopied = @ + 1]
    [] status = "skipped" -> [st EXCEPT !.FilesProcessed = @ + 1, !.FilesSkipped = @ + 1]
    [] status = "failed"  -> [st EXCEPT !.FilesProcessed = @ + 1, !.FilesFailed = @ + 1]
    [] OTHER -> st

\* Backup: ver := s.versionMgr.StartNewVersion(s.config).
SvcStartNewVersion ==
  /\ sPc = "start"
  /\ currentVer' = NewVersion(1)
  /\ sPc' = "scan"
  /\ UNCHANGED <<dsVars, dryVars, histVars, scanVars, checkVars, cmpVars, syncVars, ctxDone, poolVars, jdVars, procVars, copyVars, concurrency,
                 sErr, dPc, dIdx, sem, errChan,
                 doneChan, tpc, terr, rstatus, rsize, rfChanges, rfTotal, stats, statsPtr, oldStats,
                 index, savedIndex, versionFiles>>

\* Backup: scanSourceDirectory fails (filepath.Walk hands an error to the walk
\* function): return "scan failed".
SvcScanFail ==
  /\ sPc = "scan"
  /\ sPc' = "returned"
  /\ sErr' = "scan failed"
  /\ UNCHANGED <<dsVars, dryVars, histVars, scanVars, checkVars, cmpVars, syncVars, ctxDone, poolVars, jdVars, procVars, copyVars, concurrency,
                 dPc, dIdx, sem, errChan,
                 doneChan, tpc, terr, rstatus, rsize, rfChanges, rfTotal, stats, statsPtr, oldStats,
                 journalVars>>

\* Backup: the scan succeeds; processBackupTasks makes its channels, starts
\* the dispatching goroutine and reaches its select.
SvcScanOk ==
  /\ sPc = "scan"
  /\ sPc' = "select"
  /\ dPc' = "loop"
  /\ UNCHANGED <<dsVars, dryVars, histVars, scanVars, checkVars, cmpVars, syncVars, ctxDone, poolVars, jdVars, procVars, copyVars, concurrency,
                 sErr, dIdx, sem, errChan,
                 doneChan, tpc, terr, rstatus, rsize, rfChanges, rfTotal, stats, statsPtr, oldStats,
                 journalVars>>

\* dispatcher: select { case <-ctx.Done(): return ; case semaphore <- ... }.
DispatchCancelled ==
  /\ dPc = "loop"
  /\ dIdx <= NumTasks
  /\ ctxDone
  /\ dPc' = "exit"
  /\ UNCHANGED <<dsVars, dryVars, histVars, scanVars, checkVars, cmpVars, syncVars, ctxDone, poolVars, jdVars, procVars, copyVars, concurrency,
                 sPc, sErr, dIdx, sem, errChan,
                 doneChan, tpc, terr, rstatus, rsize, rfChanges, rfTotal, stats, statsPtr, oldStats,
                 journalVars>>

\* The semaphore case of the dispatcher's select: ready whenever the channel
\* has room.
SemaphoreReady == sem < concurrency

\* dispatcher: semaphore <- struct{}{}; wg.Add(1); go func(t) {...}(task).
DispatchTask ==
  /\ dPc = "loop"
  /\ dIdx <= NumTasks
  /\ SemaphoreReady
  /\ sem' = sem + 1
  /\ tpc' = [tpc EXCEPT ![dIdx] = "meta"]
  /\ dIdx' = dIdx + 1
  /\ UNCHANGED <<dsVars, dryVars, histVars, scanVars, checkVars, cmpVars, syncVars, ctxDone, poolVars, jdVars, procVars, copyVars, concurrency,
                 sPc, sErr, dPc, errChan,
                 doneChan, terr, rstatus, rsize, rfChanges, rfTotal, stats, statsPtr, oldStats,
                 journalVars>>

\* dispatcher: wg.Wait(); close(doneChan).
DispatchWaitDone ==
  /\ dPc = "loop"
  /\ dIdx > NumTasks
  /\ \A t \in Tasks : tpc[t] = "finished"
  /\ doneChan' = TRUE
  /\ dPc' = "exit"
  /\ UNCHANGED <<dsVars, dryVars, histVars, scanVars, checkVars, cmpVars, syncVars, ctxDone, poolVars, jdVars, procVars, copyVars, concurrency,
                 sPc, sErr, dIdx, sem, errChan,
                 tpc, terr, rstatus, rsize, rfChanges, rfTotal, stats, statsPtr, oldStats,
                 journalVars>>

\* processTask decides the file's status and calls incrementStats with the
\* function that counts it; RecordFile(path, status, size, ...) follows.
Decide(t, status, size, failed) ==
  /\ rstatus' = [rstatus EXCEPT ![t] = status]
  /\ rsize' = [rsize EXCEPT ![t] = size]
  /\ terr' = [terr EXCEPT ![t] = failed]
  /\ tpc' = [tpc EXCEPT ![t] = "is_load"]

\* processTask: s.storageManager.GetMetadata(task.SourcePath).
TaskGetMetadata(t) ==
  /\ tpc[t] = "meta"
  /\ \/ Decide(t, "failed", 0, TRUE)
     \/ /\ tpc' = [tpc EXCEPT ![t] = "compare"]
        /\ UNCHANGED <<rstatus, rsize, terr>>
  /\ UNCHANGED <<dsVars, dryVars, histVars, scanVars, checkVars, cmpVars, syncVars, ctxDone, poolVars, jdVars, procVars, copyVars, concurrency,
                 sPc, sErr, dPc, dIdx, sem,
                 errChan, doneChan, rfChanges, rfTotal, stats, statsPtr, oldStats, journalVars>>

\* processTask: Compare (an error counts as NeedsCopy); no copy needed means
\* "skipped".
TaskCompare(t) ==
  /\ tpc[t] = "compare"
  /\ \/ Decide(t, "skipped", 1, FALSE)
     \/ /\ tpc' = [tpc EXCEPT ![t] = "copy"]
        /\ UNCHANGED <<rstatus, rsize, terr>>
  /\ UNCHANGED <<dsVars, dryVars, histVars, scanVars, checkVars, cmpVars, syncVars, ctxDone, poolVars, jdVars, procVars, copyVars, concurrency,
                 sPc, sErr, dPc, dIdx, sem,
                 errChan, doneChan, rfChanges, rfTotal, stats, statsPtr, oldStats, journalVars>>

\* processTask: s.copier.Copy(ctx, ...) returns: an error (I/O, or ctx.Err()
\* when the context is done at a buffer boundary) or the bytes copied.
TaskCopy(t) ==
  /\ tpc[t] = "copy"
  /\ \/ Decide(t, "failed", 1, TRUE)
     \/ /\ ~ctxDone
        /\ tpc' = [tpc EXCEPT ![t] = "verify"]
        /\ UNCHANGED <<rstatus, rsize, terr>>
  /\ UNCHANGED <<dsVars, dryVars, histVars, scanVars, checkVars, cmpVars, syncVars, ctxDone, poolVars, jdVars, procVars, copyVars, concurrency,
                 sPc, sErr, dPc, dIdx, sem,
                 errChan, doneChan, rfChanges, rfTotal, stats, statsPtr, oldStats, journalVars>>

\* processTask: s.copier.VerifyCopy fails ("failed") or passes ("copied").
TaskVerify(t) ==
  /\ tpc[t] = "verify"
  /\ \/ Decide(t, "failed", 1, TRUE)
     \/ Decide(t, "copied", 1, FALSE)
  /\ UNCHANGED <<dsVars, dryVars, histVars, scanVars, checkVars, cmpVars, syncVars, ctxDone, poolVars, jdVars, procVars, copyVars, concurrency,
                 sPc, sErr, dPc, dIdx, sem,
                 errChan, doneChan, rfChanges, rfTotal, stats, statsPtr, oldStats, journalVars>>

\* incrementStats: oldStats := s.stats.Load().(*BackupStats).
IncrementStatsLoad(t) ==
  /\ tpc[t] = "is_load"
  /\ oldStats' = [oldStats EXCEPT ![t] = [ptr |-> statsPtr, val |-> stats]]
  /\ tpc' = [tpc EXCEPT ![t] = "is_cas"]
  /\ UNCHANGED <<dsVars, dryVars, histVars, scanVars, checkVars, cmpVars, syncVars, ctxDone, poolVars, jdVars, procVars, copyVars, concurrency,
                 sPc, sErr, dPc, dIdx, sem,
                 errChan, doneChan, terr, rstatus, rsize, rfChanges, rfTotal,
                 stats, statsPtr, journalVars>>

\* An incrementStats that stores its copy without comparing.
IncrementStatsStore(t) ==
  /\ tpc[t] = "is_cas"
  /\ stats' = IncrementStats(oldStats[t].val, rstatus[t])
  /\ statsPtr' = statsPtr + 1
  /\ tpc' = [tpc EXCEPT ![t] = "rf_read"]
  /\ UNCHANGED <<dsVars, dryVars, histVars, scanVars, checkVars, cmpVars, syncVars, ctxDone, poolVars, jdVars, procVars, copyVars, concurrency,
                 sPc, sErr, dPc, dIdx, sem,
                 errChan, doneChan, terr, rstatus, rsize, rfChanges, rfTotal,
                 oldStats, journalVars>>

\* incrementStats: newStats := *oldStats; fn(&newStats);
\* s.stats.CompareAndSwap(oldStats, &newStats): the swap happens when s.stats
\* still holds the pointer that was loaded, and the loop starts over when not.
IncrementStatsCAS(t) ==
  /\ tpc[t] = "is_cas"
  /\ IF statsPtr = oldStats[t].ptr
       THEN /\ stats' = IncrementStats(oldStats[t].val, rstatus[t])
            /\ statsPtr' = statsPtr + 1
            /\ tpc' = [tpc EXCEPT ![t] = "rf_read"]
       ELSE /\ tpc' = [tpc EXCEPT ![t] = "is_load"]
            /\ UNCHANGED <<stats, statsPtr>>
  /\ UNCHANGED <<dsVars, dryVars, histVars, scanVars, checkVars, cmpVars, syncVars, ctxDone, poolVars, jdVars, procVars, copyVars, concurrency,
                 sPc, sErr, dPc, dIdx, sem,
                 errChan, doneChan, terr, rstatus, rsize, rfChanges, rfTotal,
                 oldStats, journalVars>>

\* RecordFile: the currentVer == nil check, then the read of
\* m.currentVer.Changes that append starts with (no lock is held).
RecordFileRead(t) ==
  /\ tpc[t] = "rf_read"
  /\ IF currentVer.open
       THEN /\ rfChanges' = [rfChanges EXCEPT ![t] = currentVer.Changes]
            /\ tpc' = [tpc EXCEPT ![t] = "rf_append"]
       ELSE /\ tpc' = [tpc EXCEPT ![t] = "exit"]
            /\ UNCHANGED rfChanges
  /\ UNCHANGED <<dsVars, dryVars, histVars, scanVars, checkVars, cmpVars, syncVars, ctxDone, poolVars, jdVars, procVars, copyVars, concurrency,
                 sPc, sErr, dPc, dIdx, sem,
                 errChan, doneChan, terr, rstatus, rsize, rfTotal, stats, statsPtr, oldStats,
                 journalVars>>

\* RecordFile: m.currentVer.Changes = append(<what was read>, change).
RecordFileAppend(t) ==
  /\ tpc[t] = "rf_append"
  /\ currentVer' = [currentVer EXCEPT !.Changes =
       Append(rfChanges[t], FileChange(t, rstatus[t], rsize[t], ChecksumArg(rstatus[t])))]
  /\ tpc' = [tpc EXCEPT ![t] = "rf_total_read"]
  /\ UNCHANGED <<dsVars, dryVars, histVars, scanVars, checkVars, cmpVars, syncVars, ctxDone, poolVars, jdVars, procVars, copyVars, concurrency,
                 sPc, sErr, dPc, dIdx, sem,
                 errChan, doneChan, terr, rstatus, rsize, rfChanges, rfTotal, stats, statsPtr, oldStats,
                 index, savedIndex, versionFiles>>

\* RecordFile: Stats.Total.TotalFiles++ reads the counter ...
RecordFileTotalRead(t) ==
  /\ tpc[t] = "rf_total_read"
  /\ rfTotal' = [rfTotal EXCEPT ![t] = currentVer.Total.TotalFiles]
  /\ tpc' = [tpc EXCEPT ![t] = "rf_total_write"]
  /\ UNCHANGED <<dsVars, dryVars, histVars, scanVars, checkVars, cmpVars, syncVars, ctxDone, poolVars, jdVars, procVars, copyVars, concurrency,
                 sPc, sErr, dPc, dIdx, sem,
                 errChan, doneChan, terr, rstatus, rsize, rfChanges, stats, statsPtr, oldStats,
                 journalVars>>

\* ... and writes it back incremented; then the per-action counter.
RecordFileTotalWrite(t) ==
  /\ tpc[t] = "rf_total_write"
  /\ currentVer' = [currentVer EXCEPT !.Total =
       CountAction([@ EXCEPT !.TotalFiles = rfTotal[t] + 1], rstatus[t])]
  /\ tpc' = [tpc EXCEPT ![t] = "rf_index"]
  /\ UNCHANGED <<dsVars, dryVars, histVars, scanVars, checkVars, cmpVars, syncVars, ctxDone, poolVars, jdVars, procVars, copyVars, concurrency,
                 sPc, sErr, dPc, dIdx, sem,
                 errChan, doneChan, terr, rstatus, rsize, rfChanges, rfTotal, stats, statsPtr, oldStats,
                 index, savedIndex, versionFiles>>

\* RecordFile: under indexLock, the index entry is written; then saveIndex
\* (under indexLock again) writes index.json.tmp and renames it.
RecordFileSaveIndex(t) ==
  /\ tpc[t] = "rf_index"
  /\ index' = RecordFileIndex(index, t, rstatus[t], currentVer.ID, rsize[t], rsize[t],
                              ChecksumArg(rstatus[t]))
  /\ savedIndex' = index'
  /\ tpc' = [tpc EXCEPT ![t] = "exit"]
  /\ UNCHANGED <<dsVars, dryVars, histVars, scanVars, checkVars, cmpVars, syncVars, ctxDone, poolVars, jdVars, procVars, copyVars, concurrency,
                 sPc, sErr, dPc, dIdx, sem,
                 errChan, doneChan, terr, rstatus, rsize, rfChanges, rfTotal, stats, statsPtr, oldStats,
                 currentVer, versionFiles>>

\* The task goroutine ends: on an error, select { errChan <- err ; default },
\* then the deferred <-semaphore and wg.Done().
TaskExit(t) ==
  /\ tpc[t] = "exit"
  /\ errChan' = IF terr[t] /\ errChan = 0 THEN 1 ELSE errChan
  /\ sem' = sem - 1
  /\ tpc' = [tpc EXCEPT ![t] = "finished"]
  /\ UNCHANGED <<dsVars, dryVars, histVars, scanVars, checkVars, cmpVars, syncVars, ctxDone, poolVars, jdVars, procVars, copyVars, concurrency,
                 sPc, sErr, dPc, dIdx,
                 doneChan, terr, rstatus, rsize, rfChanges, rfTotal, stats, statsPtr, oldStats,
                 journalVars>>

\* processBackupTasks: select { case <-ctx.Done(): return ctx.Err() ...
SvcSelectCancelled ==
  /\ sPc = "select"
  /\ ctxDone
  /\ sPc' = "returned"
  /\ sErr' = "backup failed: context canceled"
  /\ UNCHANGED <<dsVars, dryVars, histVars, scanVars, checkVars, cmpVars, syncVars, ctxDone, poolVars, jdVars, procVars, copyVars, concurrency,
                 dPc, dIdx, sem, errChan,
                 doneChan, tpc, terr, rstatus, rsize, rfChanges, rfTotal, stats, statsPtr, oldStats,
                 journalVars>>

\* ... case err := <-errChan: return err ...
SvcSelectErr ==
  /\ sPc = "select"
  /\ errChan > 0
  /\ errChan' = errChan - 1
  /\ sPc' = "returned"
  /\ sErr' = "backup failed: task error"
  /\ UNCHANGED <<dsVars, dryVars, histVars, scanVars, checkVars, cmpVars, syncVars, ctxDone, poolVars, jdVars, procVars, copyVars, concurrency,
                 dPc, dIdx, sem,
                 doneChan, tpc, terr, rstatus, rsize, rfChanges, rfTotal, stats, statsPtr, oldStats,
                 journalVars>>

\* ... case <-doneChan: return nil }.
SvcSelectDone ==
  /\ sPc = "select"
  /\ doneChan
  /\ sPc' = "complete"
  /\ UNCHANGED <<dsVars, dryVars, histVars, scanVars, checkVars, cmpVars, syncVars, ctxDone, poolVars, jdVars, procVars, copyVars, concurrency,
                 sErr, dPc, dIdx, sem, errChan,
                 doneChan, tpc, terr, rstatus, rsize, rfChanges, rfTotal, stats, statsPtr, oldStats,
                 journalVars>>

\* Backup: return s.versionMgr.CompleteVersion(): the version file is
\* written and currentVer reset to nil.
SvcCompleteVersion ==
  /\ sPc = "complete"
  /\ currentVer.open
  /\ versionFiles' = [versionFiles EXCEPT ![currentVer.ID] = File("complete", currentVer)]
  /\ currentVer' = NoVersion
  /\ sPc' = "returned"
  /\ sErr' = "nil"
  /\ UNCHANGED <<dsVars, dryVars, histVars, scanVars, checkVars, cmpVars, syncVars, ctxDone, poolVars, jdVars, procVars, copyVars, concurrency,
                 dPc, dIdx, sem, errChan,
                 doneChan, tpc, terr, rstatus, rsize, rfChanges, rfTotal, stats, statsPtr, oldStats,
                 index, savedIndex>>

NextSvc ==
  \/ Cancel
  \/ SvcStartNewVersion
  \/ SvcScanFail
  \/ SvcScanOk
  \/ DispatchCancelled
  \/ DispatchTask
  \/ DispatchWaitDone
  \/ \E t \in Tasks :
       \/ TaskGetMetadata(t)
       \/ TaskCompare(t)
       \/ TaskCopy(t)
       \/ TaskVerify(t)
       \/ IncrementStatsLoad(t)
       \/ IncrementStatsCAS(t)
       \/ RecordFileRead(t)
       \/ RecordFileAppend(t)
       \/ RecordFileTotalRead(t)
       \/ RecordFileTotalWrite(t)
       \/ RecordFileSaveIndex(t)
       \/ TaskExit(t)
  \/ SvcSelectCancelled
  \/ SvcSelectErr
  \/ SvcSelectDone
  \/ SvcCompleteVersion

\* ------------------------------------------------- directory processor
\* The source tree: directory 1 holds file 1, directory 2 and file 2;
\* directory 2 holds file 3; directory 3 holds file 4.
Dirs == 1..3

Files == 1..4

FileEntry(f) == [isDir |-> FALSE, id |-> f]

DirEntry(d) == [isDir |-> TRUE, id |-> d]

\* os.ReadDir(sourcePath)
Entries(d) ==
  CASE d = 1 -> <<FileEntry(1), DirEntry(2), FileEntry(2)>>
    [] d = 2 -> <<FileEntry(3)>>
    [] OTHER -> <<FileEntry(4)>>

\* The files os.ReadDir lists for d.
FilesOf(d) == {Entries(d)[i].id : i \in {j \in DOMAIN Entries(d) : ~Entries(d)[j].isDir}}

\* cfg.Folders
Folders == <<1, 3>>

\* processDirectories: opts.MaxThreads is cfg.Storage.Source.MaxThreads, and
\* NewDirectoryProcessor makes p.sem with that capacity.
SemCapacity == srcMaxThreads

\* A ProcessDirectory call: its directory and the index of the range loop.
Frame(d) == [dir |-> d, i |-> 1]

Top == pStack[Len(pStack)]

\* The caller's frame moves on to its next entry.
Advance(stack) == [stack EXCEPT ![Len(stack)].i = @ + 1]

\* parseStorageType: "ssd", "network", anything else is "hdd".
StorageTypes == {"hdd", "ssd", "network"}

InitProc ==
  /\ srcMaxThreads \in 1..MaxThreads
  /\ tgtMaxThreads \in 1..MaxThreads
  /\ pPc = "loop"
  /\ pFolder = 1
  /\ pErr = "none"
  /\ pStack = <<>>
  /\ dirErrs = [d \in Dirs |-> 0]
  /\ dirState = [d \in Dirs |-> "none"]
  /\ fpc = [f \in Files |-> "none"]
  /\ pSem = 0
  /\ trCurrent = 0
  /\ trReported = [d \in Dirs |-> 0]
  /\ trProcessed = 0
  /\ trDone = [d \in Dirs |-> 0]
  /\ trUpdated = {}
  /\ srcStorageType \in StorageTypes
  /\ tgtStorageType \in StorageTypes

\* processFolders calls ProcessDirectory for the next folder: Stat, MkdirAll,
\* ReadDir succeed, StartDirectory (Current = the directory).
FolderEnter ==
  /\ pPc = "loop"
  /\ pStack = <<>>
  /\ pFolder <= Len(Folders)
  /\ pStack' = <<Frame(Folders[pFolder])>>
  /\ dirState' = [dirState EXCEPT ![Folders[pFolder]] = "started"]
  /\ trCurrent' = Folders[pFolder]
  /\ trDone' = [trDone EXCEPT ![Folders[pFolder]] = 0]
  /\ UNCHANGED <<trReported, trProcessed, trUpdated>>
  /\ UNCHANGED <<dsVars, dryVars, histVars, scanVars, storageVars, checkVars, cmpVars, syncVars, ctxDone, poolVars, svcVars, journalVars, jdVars, copyVars,
                 srcMaxThreads, tgtMaxThreads, pPc, pFolder, pErr, dirErrs, fpc, pSem>>

\* ... Stat, MkdirAll or ReadDir fails: ProcessDirectory returns the error and
\* processFolders returns it.
FolderAccessFail ==
  /\ pPc = "loop"
  /\ pStack = <<>>
  /\ pFolder <= Len(Folders)
  /\ pPc' = "returned"
  /\ pErr' = "error"
  /\ UNCHANGED <<dsVars, dryVars, histVars, scanVars, storageVars, trackVars, checkVars, cmpVars, syncVars, ctxDone, poolVars, svcVars, journalVars, jdVars, copyVars,
                 srcMaxThreads, tgtMaxThreads, pFolder, pStack, dirErrs, dirState,
                 fpc, pSem>>

\* The range loop meets a subdirectory: p.ProcessDirectory(sub...) is called.
SubdirEnter ==
  /\ pStack # <<>>
  /\ Top.i <= Len(Entries(Top.dir))
  /\ Entries(Top.dir)[Top.i].isDir
  /\ pStack' = Append(pStack, Frame(Entries(Top.dir)[Top.i].id))
  /\ dirState' = [dirState EXCEPT ![Entries(Top.dir)[Top.i].id] = "started"]
  /\ trCurrent' = Entries(Top.dir)[Top.i].id
  /\ trDone' = [trDone EXCEPT ![Entries(Top.dir)[Top.i].id] = 0]
  /\ UNCHANGED <<trReported, trProcessed, trUpdated>>
  /\ UNCHANGED <<dsVars, dryVars, histVars, scanVars, storageVars, checkVars, cmpVars, syncVars, ctxDone, poolVars, svcVars, journalVars, jdVars, copyVars,
                 srcMaxThreads, tgtMaxThreads, pPc, pFolder, pErr, dirErrs, fpc, pSem>>

\* ... and the subdirectory cannot be accessed: errs <- err; continue.
SubdirAccessFail ==
  /\ pStack # <<>>
  /\ Top.i <= Len(Entries(Top.dir))
  /\ Entries(Top.dir)[Top.i].isDir
  /\ dirErrs' = [dirErrs EXCEPT ![Top.dir] = @ + 1]
  /\ pStack' = Advance(pStack)
  /\ UNCHANGED <<dsVars, dryVars, histVars, scanVars, storageVars, trackVars, checkVars, cmpVars, syncVars, ctxDone, poolVars, svcVars, journalVars, jdVars, copyVars,
                 srcMaxThreads, tgtMaxThreads, pPc, pFolder, pErr, dirState, fpc, pSem>>

\* The range loop meets a file: wg.Add(1); go func(e) {...}(entry).
FileSpawn ==
  /\ pStack # <<>>
  /\ Top.i <= Len(Entries(Top.dir))
  /\ ~Entries(Top.dir)[Top.i].isDir
  /\ fpc' = [fpc EXCEPT ![Entries(Top.dir)[Top.i].id] = "info"]
  /\ pStack' = Advance(pStack)
  /\ UNCHANGED <<dsVars, dryVars, histVars, scanVars, storageVars, trackVars, checkVars, cmpVars, syncVars, ctxDone, poolVars, svcVars, journalVars, jdVars, copyVars,
                 srcMaxThreads, tgtMaxThreads, pPc, pFolder, pErr, dirErrs, dirState,
                 pSem>>

\* File goroutine: e.Info() succeeds.
FileInfoOk(f) ==
  /\ fpc[f] = "info"
  /\ fpc' = [fpc EXCEPT ![f] = "acquire"]
  /\ UNCHANGED <<dsVars, dryVars, histVars, scanVars, storageVars, trackVars, checkVars, cmpVars, syncVars, ctxDone, poolVars, svcVars, journalVars, jdVars, copyVars,
                 srcMaxThreads, tgtMaxThreads, pPc, pFolder, pErr, pStack, dirErrs,
                 dirState, pSem>>

\* The directory whose listing holds file f.
DirOf(f) == CHOOSE d \in Dirs : f \in FilesOf(d)

\* File goroutine: e.Info() fails: errs <- ...; return (wg.Done).
FileInfoErr(f) ==
  /\ fpc[f] = "info"
  /\ dirErrs' = [dirErrs EXCEPT ![DirOf(f)] = @ + 1]
  /\ fpc' = [fpc EXCEPT ![f] = "done"]
  /\ UNCHANGED <<dsVars, dryVars, histVars, scanVars, storageVars, trackVars, checkVars, cmpVars, syncVars, ctxDone, poolVars, svcVars, journalVars, jdVars, copyVars,
                 srcMaxThreads, tgtMaxThreads, pPc, pFolder, pErr, pStack, dirState,
                 pSem>>

\* File goroutine: p.sem <- struct{}{} ; copyFile begins.
FileAcquire(f) ==
  /\ fpc[f] = "acquire"
  /\ pSem < SemCapacity
  /\ pSem' = pSem + 1
  /\ fpc' = [fpc EXCEPT ![f] = "copying"]
  /\ UNCHANGED <<dsVars, dryVars, histVars, scanVars, storageVars, trackVars, checkVars, cmpVars, syncVars, ctxDone, poolVars, svcVars, journalVars, jdVars, copyVars,
                 srcMaxThreads, tgtMaxThreads, pPc, pFolder, pErr, pStack, dirErrs,
                 dirState>>

\* File goroutine: copyFile returns nil.
FileCopyOk(f) ==
  /\ fpc[f] = "copying"
  /\ fpc' = [fpc EXCEPT ![f] = "progress"]
  /\ UNCHANGED <<dsVars, dryVars, histVars, scanVars, storageVars, trackVars, checkVars, cmpVars, syncVars, ctxDone, poolVars, svcVars, journalVars, jdVars, copyVars,
                 srcMaxThreads, tgtMaxThreads, pPc, pFolder, pErr, pStack, dirErrs,
                 dirState, pSem>>

\* File goroutine: copyFile returns an error: errs <- ...
FileCopyErr(f) ==
  /\ fpc[f] = "copying"
  /\ dirErrs' = [dirErrs EXCEPT ![DirOf(f)] = @ + 1]
  /\ fpc' = [fpc EXCEPT ![f] = "progress"]
  /\ UNCHANGED <<dsVars, dryVars, histVars, scanVars, storageVars, trackVars, checkVars, cmpVars, syncVars, ctxDone, poolVars, svcVars, journalVars, jdVars, copyVars,
                 srcMaxThreads, tgtMaxThreads, pPc, pFolder, pErr, pStack, dirState,
                 pSem>>

\* tracker.UpdateProgress, under the tracker's mutex: nothing when Current is
\* nil; otherwise Current.Done++ and progress.Processed++.
UpdateProgress(current, processed, done) ==
  IF current = 0
    THEN [Processed |-> processed, Done |-> done]
    ELSE [Processed |-> processed + 1, Done |-> [done EXCEPT ![current] = @ + 1]]

\* A file goroutine that ends without the deferred <-p.sem.
FileReleaseKeepsSlot(f) ==
  /\ fpc[f] = "progress"
  /\ fpc' = [fpc EXCEPT ![f] = "done"]
  /\ trUpdated' = trUpdated \cup {f}
  /\ trProcessed' = UpdateProgress(trCurrent, trProcessed, trDone).Processed
  /\ trDone' = UpdateProgress(trCurrent, trProcessed, trDone).Done
  /\ UNCHANGED <<dsVars, dryVars, histVars, scanVars, storageVars, checkVars, cmpVars, syncVars, ctxDone, poolVars, svcVars, journalVars, jdVars, copyVars,
                 srcMaxThreads, tgtMaxThreads, pPc, pFolder, pErr, pStack, dirErrs,
                 dirState, trCurrent, trReported, pSem>>

\* File goroutine: p.tracker.UpdateProgress(info.Size()), then the deferred
\* <-p.sem and wg.Done().
FileRelease(f) ==
  /\ fpc[f] = "progress"
  /\ pSem' = pSem - 1
  /\ fpc' = [fpc EXCEPT ![f] = "done"]
  /\ trUpdated' = trUpdated \cup {f}
  /\ trProcessed' = UpdateProgress(trCurrent, trProcessed, trDone).Processed
  /\ trDone' = UpdateProgress(trCurrent, trProcessed, trDone).Done
  /\ UNCHANGED <<dsVars, dryVars, histVars, scanVars, storageVars, checkVars, cmpVars, syncVars, ctxDone, poolVars, svcVars, journalVars, jdVars, copyVars,
                 srcMaxThreads, tgtMaxThreads, pPc, pFolder, pErr, pStack, dirErrs,
                 dirState, trCurrent, trReported>>

\* The range loop is over: wg.Wait() returns once the directory's file
\* goroutines are done, close(errs), FinishDirectory (which reports the
\* directory Current points to, if any, and sets Current to nil), and the
\* call returns an error when errs held any. The caller is ProcessDirectory (errs <- err;
\* continue) or processFolders (return err, or the next folder).
DirectoryReturn ==
  /\ pStack # <<>>
  /\ Top.i > Len(Entries(Top.dir))
  /\ \A f \in FilesOf(Top.dir) : fpc[f] = "done"
  /\ dirState' = [dirState EXCEPT ![Top.dir] = "finished"]
  /\ trReported' = IF trCurrent # 0 THEN [trReported EXCEPT ![trCurrent] = @ + 1]
                                    ELSE trReported
  /\ trCurrent' = 0
  /\ UNCHANGED <<trProcessed, trDone, trUpdated>>
  /\ IF Len(pStack) > 1
       THEN /\ pStack' = Advance(SubSeq(pStack, 1, Len(pStack) - 1))
            /\ dirErrs' = [dirErrs EXCEPT ![pStack[Len(pStack) - 1].dir] =
                             IF dirErrs[Top.dir] > 0 THEN @ + 1 ELSE @]
            /\ UNCHANGED <<pPc, pFolder, pErr>>
       ELSE /\ pStack' = <<>>
            /\ IF dirErrs[Top.dir] > 0
                 THEN pPc' = "returned" /\ pErr' = "error" /\ UNCHANGED pFolder
                 ELSE pFolder' = pFolder + 1 /\ UNCHANGED <<pPc, pErr>>
            /\ UNCHANGED dirErrs
  /\ UNCHANGED <<dsVars, dryVars, histVars, scanVars, storageVars, checkVars, cmpVars, syncVars, ctxDone, poolVars, svcVars, journalVars, jdVars, copyVars,
                 srcMaxThreads, tgtMaxThreads, fpc, pSem>>

\* processFolders: the range over cfg.Folders is over: return nil.
FoldersReturn ==
  /\ pPc = "loop"
  /\ pStack = <<>>
  /\ pFolder > Len(Folders)
  /\ pPc' = "returned"
  /\ pErr' = "nil"
  /\ UNCHANGED <<dsVars, dryVars, histVars, scanVars, storageVars, trackVars, checkVars, cmpVars, syncVars, ctxDone, poolVars, svcVars, journalVars, jdVars, copyVars,
                 srcMaxThreads, tgtMaxThreads, pFolder, pStack, dirErrs, dirState,
                 fpc, pSem>>

NextProc ==
  \/ FolderEnter
  \/ FolderAccessFail
  \/ SubdirEnter
  \/ SubdirAccessFail
  \/ FileSpawn
  \/ \E f \in Files :
       \/ FileInfoOk(f)
       \/ FileInfoErr(f)
       \/ FileAcquire(f)
       \/ FileCopyOk(f)
       \/ FileCopyErr(f)
       \/ FileRelease(f)
  \/ DirectoryReturn
  \/ FoldersReturn

\* ------------------------------------------------------------ Copier.Copy
\* The destination does not exist.
NoDst == [exists |-> FALSE, blocks |-> 0, attrs |-> FALSE]

\* The destination a previous run left, complete.
OldDst == [exists |-> TRUE, blocks |-> 1, attrs |-> TRUE]

InitCopy ==
  /\ srcBlocks \in 0..MaxBlocks
  /\ cPc = "start"
  /\ written = 0
  /\ dst \in {NoDst, OldDst}
  /\ cErr = "none"

\* Copy returns err; the deferred Close calls do not touch the file's content.
CopyReturn(err) ==
  /\ cPc' = "returned"
  /\ cErr' = err

\* MkdirAll, os.Open(src) or os.Create(dst) fails.
CopyOpenFail ==
  /\ cPc = "start"
  /\ CopyReturn("open failed")
  /\ UNCHANGED <<dsVars, dryVars, histVars, scanVars, checkVars, cmpVars, syncVars, ctxDone, poolVars, svcVars, journalVars, jdVars, procVars,
                 srcBlocks, written, dst>>

\* os.Create(dst): the destination exists and is empty.
CopyCreate ==
  /\ cPc = "start"
  /\ dst' = [exists |-> TRUE, blocks |-> 0, attrs |-> FALSE]
  /\ cPc' = "check"
  /\ UNCHANGED <<dsVars, dryVars, histVars, scanVars, checkVars, cmpVars, syncVars, ctxDone, poolVars, svcVars, journalVars, jdVars, procVars,
                 srcBlocks, written, cErr>>

\* The loop's select: case <-ctx.Done(): return ..., ctx.Err().
CopyCheckCancelled ==
  /\ cPc = "check"
  /\ ctxDone
  /\ CopyReturn("cancelled")
  /\ UNCHANGED <<dsVars, dryVars, histVars, scanVars, checkVars, cmpVars, syncVars, ctxDone, poolVars, svcVars, journalVars, jdVars, procVars,
                 srcBlocks, written, dst>>

\* The loop's select takes default: srcFile.Read fills the buffer.
CopyRead ==
  /\ cPc = "check"
  /\ ~ctxDone
  /\ written < srcBlocks
  /\ cPc' = "write"
  /\ UNCHANGED <<dsVars, dryVars, histVars, scanVars, checkVars, cmpVars, syncVars, ctxDone, poolVars, svcVars, journalVars, jdVars, procVars,
                 srcBlocks, written, dst, cErr>>

\* ... srcFile.Read fails: return the read error.
CopyReadErr ==
  /\ cPc = "check"
  /\ ~ctxDone
  /\ written < srcBlocks
  /\ CopyReturn("read error")
  /\ UNCHANGED <<dsVars, dryVars, histVars, scanVars, checkVars, cmpVars, syncVars, ctxDone, poolVars, svcVars, journalVars, jdVars, procVars,
                 srcBlocks, written, dst>>

\* dstFile.Write(buffer[0:nr]) writes the buffer: written += nw.
CopyWrite ==
  /\ cPc = "write"
  /\ written' = written + 1
  /\ dst' = [dst EXCEPT !.blocks = @ + 1]
  /\ cPc' = "check"
  /\ UNCHANGED <<dsVars, dryVars, histVars, scanVars, checkVars, cmpVars, syncVars, ctxDone, poolVars, svcVars, journalVars, jdVars, procVars,
                 srcBlocks, cErr>>

\* ... dstFile.Write fails or is short: return the error.
CopyWriteErr ==
  /\ cPc = "write"
  /\ CopyReturn("write error")
  /\ UNCHANGED <<dsVars, dryVars, histVars, scanVars, checkVars, cmpVars, syncVars, ctxDone, poolVars, svcVars, journalVars, jdVars, procVars,
                 srcBlocks, written, dst>>

\* ... the read returns io.EOF: break.
CopyEOF ==
  /\ cPc = "check"
  /\ ~ctxDone
  /\ written = srcBlocks
  /\ cPc' = "finish"
  /\ UNCHANGED <<dsVars, dryVars, histVars, scanVars, checkVars, cmpVars, syncVars, ctxDone, poolVars, svcVars, journalVars, jdVars, procVars,
                 srcBlocks, written, dst, cErr>>

\* Sync, Stat, Chmod, Chtimes succeed: return nil.
CopyFinish ==
  /\ cPc = "finish"
  /\ dst' = [dst EXCEPT !.attrs = TRUE]
  /\ CopyReturn("nil")
  /\ UNCHANGED <<dsVars, dryVars, histVars, scanVars, checkVars, cmpVars, syncVars, ctxDone, poolVars, svcVars, journalVars, jdVars, procVars,
                 srcBlocks, written>>

\* Sync, Stat, Chmod or Chtimes fails: return the error.
CopyFinishFail ==
  /\ cPc = "finish"
  /\ CopyReturn("finish failed")
  /\ UNCHANGED <<dsVars, dryVars, histVars, scanVars, checkVars, cmpVars, syncVars, ctxDone, poolVars, svcVars, journalVars, jdVars, procVars,
                 srcBlocks, written, dst>>

NextCopy ==
  \/ Cancel
  \/ CopyOpenFail
  \/ CopyCreate
  \/ CopyCheckCancelled
  \/ CopyRead
  \/ CopyReadErr
  \/ CopyWrite
  \/ CopyWriteErr
  \/ CopyEOF
  \/ CopyFinish
  \/ CopyFinishFail

\* ------------------------------------------------ comparator (check levels)
\* One file pair is compared at a configured validation level, either by
\* Scanner.Compare / Scanner.compareFiles (internal/scan/compare.go) or by the
\* strategies of internal/validation (QuickValidator, StandardValidator,
\* DeepValidator).  File content is a sequence of blocks; a hash is modelled
\* by the bytes it was computed over (no collisions), and cmpEntered records
\* which levels did work on the pair: "quick" the metadata gate, "standard"
\* the prefix hash, "deep" the full-content hash or comparison.

Levels == <<"quick", "standard", "deep">>

LevelRank(l) == CHOOSE i \in DOMAIN Levels : Levels[i] = l

modTimeToleranceSeconds == 2

Contents == UNION {[1..n -> {0, 1}] : n \in 0..MaxSize}

FileInfo(d, t) == [Size |-> Len(d), ModTime |-> t, Data |-> d]

FileInfos == {FileInfo(d, t) : d \in Contents, t \in 0..MaxModTime}

\* findFile returned nil: the target has no file at the path.
NilFile == [Size |-> -1, ModTime |-> 0, Data |-> <<>>]

abs(x) == IF x < 0 THEN -x ELSE x

\* No earlier comparison of the pair has been made.
NoEarlier == [Level |-> "none", Status |-> "none"]

\* A metadata gate that rejects a difference of exactly the tolerance.
MetadataEqualBelowTolerance(src, tgt) ==
  /\ src.Size = tgt.Size
  /\ ~(abs(src.ModTime - tgt.ModTime) >= modTimeToleranceSeconds)

\* The metadata gate of compareFiles and of QuickValidator.Compare.
MetadataEqual(src, tgt) ==
  /\ src.Size = tgt.Size
  /\ ~(abs(src.ModTime - tgt.ModTime) > modTimeToleranceSeconds)

\* A prefix hash that reads nothing of the file.
hashPartialFileOfNothing(f) == <<>>

\* hashPartialFile / hashFileStart: the hash of the first bufferSize bytes
\* (fewer when the file is shorter).
hashPartialFile(f) ==
  SubSeq(f.Data, 1, IF BufferBlocks < Len(f.Data) THEN BufferBlocks ELSE Len(f.Data))

\* hashFile: the hash of the whole content.
hashFile(f) == f.Data

\* DeepValidator.Compare's loop: both files are read a buffer at a time, from
\* block pos on; unequal chunk lengths or bytes end it with "not equal".
RECURSIVE CompareChunks(_, _, _)
CompareChunks(a, b, pos) ==
  LET aN == IF Len(a) - pos + 1 < BufferBlocks THEN Len(a) - pos + 1 ELSE BufferBlocks
      bN == IF Len(b) - pos + 1 < BufferBlocks THEN Len(b) - pos + 1 ELSE BufferBlocks
  IN  IF aN <= 0 /\ bN <= 0 THEN TRUE
      ELSE IF aN <= 0 \/ bN <= 0 THEN FALSE
      ELSE IF aN # bN THEN FALSE
      ELSE IF SubSeq(a, pos, pos + aN - 1) # SubSeq(b, pos, pos + bN - 1) THEN FALSE
      ELSE CompareChunks(a, b, pos + aN)

InitCompare ==
  /\ cmpImpl \in {"scanner", "validator"}
  /\ cmpLevel \in {Levels[i] : i \in DOMAIN Levels}
  /\ cmpSource \in FileInfos
  /\ cmpTarget \in FileInfos \cup {NilFile}
  /\ cmpImpl = "validator" => cmpTarget # NilFile
  /\ cmpPc = "start"
  /\ cmpStatus = "none"
  /\ cmpCompLevel = "none"
  /\ cmpEntered = {}
  /\ cmpEarlier = NoEarlier

CompareIdle ==
  /\ cmpImpl = "none"
  /\ cmpLevel = "quick"
  /\ cmpSource = NilFile
  /\ cmpTarget = NilFile
  /\ cmpPc = "idle"
  /\ cmpStatus = "none"
  /\ cmpCompLevel = "none"
  /\ cmpEntered = {}
  /\ cmpEarlier = NoEarlier

\* Scanner.Compare, no target file at the path: StatusNew, compareFiles is
\* not called.  comp.Level was set to the configured level before.
ScannerCompareNew ==
  /\ cmpImpl = "scanner"
  /\ cmpPc = "start"
  /\ cmpTarget = NilFile
  /\ cmpCompLevel' = cmpLevel
  /\ cmpStatus' = "new"
  /\ cmpPc' = "done"
  /\ UNCHANGED <<dsVars, dryVars, histVars, scanVars, checkVars, syncVars, ctxDone, poolVars, svcVars, journalVars, jdVars, procVars, copyVars, cmpEarlier,
                 cmpImpl, cmpLevel, cmpSource, cmpTarget, cmpEntered>>

\* Scanner.Compare with a target file: comp.Level is the configured level;
\* compareFiles checks size and modification time and returns at level quick.
ScannerCompareMetadata ==
  /\ cmpImpl = "scanner"
  /\ cmpPc = "start"
  /\ cmpTarget # NilFile
  /\ cmpCompLevel' = cmpLevel
  /\ cmpEntered' = {"quick"}
  /\ IF ~MetadataEqual(cmpSource, cmpTarget)
       THEN cmpStatus' = "differ" /\ cmpPc' = "done"
       ELSE IF cmpLevel = "quick"
              THEN cmpStatus' = "match" /\ cmpPc' = "done"
              ELSE /\ cmpStatus' = cmpStatus
                   /\ cmpPc' = IF cmpLevel = "standard" THEN "prefix" ELSE "full"
  /\ UNCHANGED <<dsVars, dryVars, histVars, scanVars, checkVars, syncVars, ctxDone, poolVars, svcVars, journalVars, jdVars, procVars, copyVars, cmpEarlier,
                 cmpImpl, cmpLevel, cmpSource, cmpTarget>>

\* compareFiles at level standard: both prefix hashes are computed and compared.
ScannerHashPartial ==
  /\ cmpImpl = "scanner"
  /\ cmpPc = "prefix"
  /\ cmpEntered' = cmpEntered \cup {"standard"}
  /\ cmpStatus' = IF hashPartialFile(cmpSource) # hashPartialFile(cmpTarget)
                    THEN "differ" ELSE "match"
  /\ cmpPc' = "done"
  /\ UNCHANGED <<dsVars, dryVars, histVars, scanVars, checkVars, syncVars, ctxDone, poolVars, svcVars, journalVars, jdVars, procVars, copyVars, cmpEarlier,
                 cmpImpl, cmpLevel, cmpSource, cmpTarget, cmpCompLevel>>

\* hashPartialFile fails on either file: StatusError.
ScannerHashPartialErr ==
  /\ cmpImpl = "scanner"
  /\ cmpPc = "prefix"
  /\ cmpEntered' = cmpEntered \cup {"standard"}
  /\ cmpStatus' = "error"
  /\ cmpPc' = "done"
  /\ UNCHANGED <<dsVars, dryVars, histVars, scanVars, checkVars, syncVars, ctxDone, poolVars, svcVars, journalVars, jdVars, procVars, copyVars, cmpEarlier,
                 cmpImpl, cmpLevel, cmpSource, cmpTarget, cmpCompLevel>>

\* A full-hash comparison that reports a mismatch with the status of a pair
\* without target.
ScannerHashFileReportsNew ==
  /\ cmpImpl = "scanner"
  /\ cmpPc = "full"
  /\ cmpEntered' = cmpEntered \cup {"deep"}
  /\ cmpStatus' = IF hashFile(cmpSource) # hashFile(cmpTarget) THEN "new" ELSE "match"
  /\ cmpPc' = "done"
  /\ UNCHANGED <<dsVars, dryVars, histVars, scanVars, checkVars, syncVars, ctxDone, poolVars, svcVars, journalVars, jdVars, procVars, copyVars, cmpEarlier,
                 cmpImpl, cmpLevel, cmpSource, cmpTarget, cmpCompLevel>>

\* compareFiles at any other level (deep): both full hashes are computed and
\* compared, straight after the metadata check.
ScannerHashFile ==
  /\ cmpImpl = "scanner"
  /\ cmpPc = "full"
  /\ cmpEntered' = cmpEntered \cup {"deep"}
  /\ cmpStatus' = IF hashFile(cmpSource) # hashFile(cmpTarget) THEN "differ" ELSE "match"
  /\ cmpPc' = "done"
  /\ UNCHANGED <<dsVars, dryVars, histVars, scanVars, checkVars, syncVars, ctxDone, poolVars, svcVars, journalVars, jdVars, procVars, copyVars, cmpEarlier,
                 cmpImpl, cmpLevel, cmpSource, cmpTarget, cmpCompLevel>>

\* hashFile fails on either file: StatusError.
ScannerHashFileErr ==
  /\ cmpImpl = "scanner"
  /\ cmpPc = "full"
  /\ cmpEntered' = cmpEntered \cup {"deep"}
  /\ cmpStatus' = "error"
  /\ cmpPc' = "done"
  /\ UNCHANGED <<dsVars, dryVars, histVars, scanVars, checkVars, syncVars, ctxDone, poolVars, svcVars, journalVars, jdVars, procVars, copyVars, cmpEarlier,
                 cmpImpl, cmpLevel, cmpSource, cmpTarget, cmpCompLevel>>

\* QuickValidator.Compare, called directly (level quick) or as the first step
\* of StandardValidator.Compare / DeepValidator.Compare.  A ComparisonResult
\* carries Equal only: "match" stands for Equal = true, "differ" for false.
QuickValidatorCompare ==
  /\ cmpImpl = "validator"
  /\ cmpPc = "start"
  /\ cmpEntered' = {"quick"}
  /\ IF ~MetadataEqual(cmpSource, cmpTarget)
       THEN cmpStatus' = "differ" /\ cmpPc' = "done"
       ELSE IF cmpLevel = "quick"
              THEN cmpStatus' = "match" /\ cmpPc' = "done"
              ELSE cmpStatus' = cmpStatus /\ cmpPc' = "standard"
  /\ UNCHANGED <<dsVars, dryVars, histVars, scanVars, checkVars, syncVars, ctxDone, poolVars, svcVars, journalVars, jdVars, procVars, copyVars, cmpEarlier,
                 cmpImpl, cmpLevel, cmpSource, cmpTarget, cmpCompLevel>>

\* StandardValidator.Compare after its own quick comparison (which DeepValidator
\* repeats through it): the prefix hashes are computed and compared.
StandardValidatorCompare ==
  /\ cmpImpl = "validator"
  /\ cmpPc = "standard"
  /\ IF ~MetadataEqual(cmpSource, cmpTarget)
       THEN cmpStatus' = "differ" /\ cmpPc' = "done" /\ cmpEntered' = cmpEntered
       ELSE /\ cmpEntered' = cmpEntered \cup {"standard"}
            /\ IF hashPartialFile(cmpSource) # hashPartialFile(cmpTarget)
                 THEN cmpStatus' = "differ" /\ cmpPc' = "done"
                 ELSE IF cmpLevel = "standard"
                        THEN cmpStatus' = "match" /\ cmpPc' = "done"
                        ELSE cmpStatus' = cmpStatus /\ cmpPc' = "deep"
  /\ UNCHANGED <<dsVars, dryVars, histVars, scanVars, checkVars, syncVars, ctxDone, poolVars, svcVars, journalVars, jdVars, procVars, copyVars, cmpEarlier,
                 cmpImpl, cmpLevel, cmpSource, cmpTarget, cmpCompLevel>>

\* hashFileStart fails, or the algorithm is unsupported: Equal = false.
StandardValidatorErr ==
  /\ cmpImpl = "validator"
  /\ cmpPc = "standard"
  /\ cmpEntered' = cmpEntered \cup {"standard"}
  /\ cmpStatus' = "differ"
  /\ cmpPc' = "done"
  /\ UNCHANGED <<dsVars, dryVars, histVars, scanVars, checkVars, syncVars, ctxDone, poolVars, svcVars, journalVars, jdVars, procVars, copyVars, cmpEarlier,
                 cmpImpl, cmpLevel, cmpSource, cmpTarget, cmpCompLevel>>

\* DeepValidator.Compare after the quick and the standard comparison reported
\* Equal: the contents are compared chunk by chunk.
DeepValidatorCompare ==
  /\ cmpImpl = "validator"
  /\ cmpPc = "deep"
  /\ cmpEntered' = cmpEntered \cup {"deep"}
  /\ cmpStatus' = IF CompareChunks(cmpSource.Data, cmpTarget.Data, 1)
                    THEN "match" ELSE "differ"
  /\ cmpPc' = "done"
  /\ UNCHANGED <<dsVars, dryVars, histVars, scanVars, checkVars, syncVars, ctxDone, poolVars, svcVars, journalVars, jdVars, procVars, copyVars, cmpEarlier,
                 cmpImpl, cmpLevel, cmpSource, cmpTarget, cmpCompLevel>>

\* Opening or reading either file fails: Equal = false.
DeepValidatorErr ==
  /\ cmpImpl = "validator"
  /\ cmpPc = "deep"
  /\ cmpEntered' = cmpEntered \cup {"deep"}
  /\ cmpStatus' = "differ"
  /\ cmpPc' = "done"
  /\ UNCHANGED <<dsVars, dryVars, histVars, scanVars, checkVars, syncVars, ctxDone, poolVars, svcVars, journalVars, jdVars, procVars, copyVars, cmpEarlier,
                 cmpImpl, cmpLevel, cmpSource, cmpTarget, cmpCompLevel>>

\* The check is run again on the same pair with a higher --level: the
\* scanner options carry the new level, the verdict of the run before is kept
\* for comparison.
CompareAtHigherLevel ==
  /\ cmpPc = "done"
  /\ cmpEarlier = NoEarlier
  /\ \E l \in {Levels[i] : i \in DOMAIN Levels} :
       /\ LevelRank(l) > LevelRank(cmpLevel)
       /\ cmpLevel' = l
  /\ cmpEarlier' = [Level |-> cmpLevel, Status |-> cmpStatus]
  /\ cmpPc' = "start"
  /\ cmpStatus' = "none"
  /\ cmpCompLevel' = "none"
  /\ cmpEntered' = {}
  /\ UNCHANGED <<dsVars, dryVars, histVars, scanVars, checkVars, syncVars, ctxDone, poolVars, svcVars, journalVars, jdVars, procVars, copyVars,
                 cmpImpl, cmpSource, cmpTarget>>

NextCompare ==
  \/ ScannerCompareNew
  \/ ScannerCompareMetadata
  \/ ScannerHashPartial
  \/ ScannerHashPartialErr
  \/ ScannerHashFile
  \/ ScannerHashFileErr
  \/ QuickValidatorCompare
  \/ StandardValidatorCompare
  \/ StandardValidatorErr
  \/ DeepValidatorCompare
  \/ DeepValidatorErr
  \/ CompareAtHigherLevel

\* ------------------------------------------------- sync runs over one file
\* One source file and its target counterpart over consecutive sync runs, as
\* each of the repository's sync paths treats them:
\*   "processor"  directoryProcessor.ProcessDirectory + copyFile
\*   "strategies" storage.Manager.Compare over MetadataCompare, QuickHashCompare
\*                and FullChecksumCompare, then Copier.Copy
\*   "manager"    storage.Manager.Compare with the version history, then
\*                Copier.Copy
\*   "skipcheck"  Manager.ShouldSkipFile, then Manager.ExecuteTask / Copy
\* Nothing but the run itself touches the files between runs.  Reads of the
\* comparison succeed; a copy may fail.  The version index is looked up by
\* the path it was recorded under.

Modes == {0, 1}

DiskFile(d, t, m) == [Data |-> d, ModTime |-> t, Mode |-> m]

DiskFiles == {DiskFile(d, t, m) : d \in Contents, t \in 0..MaxModTime, m \in Modes}

\* os.Stat reports that the target does not exist.
NoTarget == [Data |-> <<>>, ModTime |-> -1, Mode |-> -1]

\* GetFileLastVersion: "no version history found".
NoHistory == [Size |-> -1, ModTime |-> -1]

\* GetFileLastVersion copies Size, ModTime and Checksum of the index entry;
\* QuickHash stays empty.
LastVersions ==
  {[Size |-> s, ModTime |-> t] : s \in 0..MaxSize, t \in 0..MaxModTime}

\* The modification time a file gets when it is written and no Chtimes follows.
NowTime == MaxModTime

\* calculateQuickHash: the hash of the first QuickHashSize bytes.
calculateQuickHash(d) ==
  SubSeq(d, 1, IF QuickHashBlocks < Len(d) THEN QuickHashBlocks ELSE Len(d))

\* calculateFullChecksum / CalculateChecksum: the hash of the whole content.
calculateFullChecksum(d) == d

\* MetadataCompare.Compare, QuickHashCompare.Compare, FullChecksumCompare.Compare
\* in the order Manager.Compare tries them: the first result whose reason is
\* not "try next strategy" is returned.
StrategiesNeedsCopy(src, tgt) ==
  IF tgt = NoTarget THEN TRUE
  ELSE IF Len(src.Data) # Len(tgt.Data) THEN TRUE
  ELSE IF src.ModTime = tgt.ModTime THEN FALSE
  ELSE calculateQuickHash(src.Data) # calculateQuickHash(tgt.Data)

\* Manager.Compare with a version manager: the history is consulted first.
\* lastVersion.QuickHash is empty, so the quick hash never matches it.
ManagerNeedsCopy(src, tgt, last) ==
  IF tgt = NoTarget THEN TRUE
  ELSE IF last # NoHistory /\ Len(src.Data) # last.Size THEN TRUE
  ELSE IF last # NoHistory /\ src.ModTime < last.ModTime THEN FALSE
  ELSE IF Len(src.Data) # Len(tgt.Data) THEN TRUE
  ELSE calculateFullChecksum(src.Data) # calculateFullChecksum(tgt.Data)

\* Manager.ShouldSkipFile.
ShouldSkip(src, tgt, deep) ==
  IF tgt = NoTarget THEN FALSE
  ELSE IF Len(src.Data) # Len(tgt.Data) THEN FALSE
  ELSE IF deep THEN calculateFullChecksum(src.Data) = calculateFullChecksum(tgt.Data)
  ELSE TRUE

\* What a copy that failed half-way leaves: the target was created or
\* truncated and not removed.
Truncated(tgt, newMode) ==
  DiskFile(<<>>, NowTime, IF tgt = NoTarget THEN newMode ELSE tgt.Mode)

InitSync ==
  /\ syncImpl \in {"processor", "strategies", "manager", "skipcheck"}
  /\ deepDuplicateCheck \in BOOLEAN
  /\ syncImpl # "skipcheck" => deepDuplicateCheck = FALSE
  /\ syncSrc \in DiskFiles
  /\ syncTgt \in DiskFiles \cup {NoTarget}
  /\ lastVersion \in LastVersions \cup {NoHistory}
  /\ syncImpl # "manager" => lastVersion = NoHistory
  /\ syncRun = 1
  /\ syncPc = "compare"
  /\ outcomes = <<>>

SyncIdle ==
  /\ syncImpl = "none"
  /\ deepDuplicateCheck = FALSE
  /\ syncSrc = NoTarget
  /\ syncTgt = NoTarget
  /\ lastVersion = NoHistory
  /\ syncRun = 0
  /\ syncPc = "idle"
  /\ outcomes = <<>>

\* ProcessDirectory's file goroutine: copyFile is called for every file,
\* without any comparison.  O_CREATE|O_TRUNC with the source's mode sets the
\* mode of a new file only; PreserveMetadata is on, so Chtimes follows.
ProcessorCopyFile ==
  /\ syncImpl = "processor"
  /\ syncPc = "compare"
  /\ syncTgt' = DiskFile(syncSrc.Data, syncSrc.ModTime,
                         IF syncTgt = NoTarget THEN syncSrc.Mode ELSE syncTgt.Mode)
  /\ outcomes' = Append(outcomes, "copied")
  /\ syncPc' = "ran"
  /\ UNCHANGED <<dsVars, dryVars, histVars, scanVars, checkVars, cmpVars, ctxDone, poolVars, svcVars, journalVars, jdVars, procVars, copyVars,
                 syncImpl, deepDuplicateCheck, syncSrc, lastVersion, syncRun>>

\* copyFile fails after the target was opened.
ProcessorCopyFileErr ==
  /\ syncImpl = "processor"
  /\ syncPc = "compare"
  /\ syncTgt' = Truncated(syncTgt, syncSrc.Mode)
  /\ outcomes' = Append(outcomes, "failed")
  /\ syncPc' = "ran"
  /\ UNCHANGED <<dsVars, dryVars, histVars, scanVars, checkVars, cmpVars, ctxDone, poolVars, svcVars, journalVars, jdVars, procVars, copyVars,
                 syncImpl, deepDuplicateCheck, syncSrc, lastVersion, syncRun>>

\* Service.processTask: Compare over the strategies; a skipped file is
\* recorded with the source's size and modification time.
StrategiesCompare ==
  /\ syncImpl = "strategies"
  /\ syncPc = "compare"
  /\ IF StrategiesNeedsCopy(syncSrc, syncTgt)
       THEN syncPc' = "copy" /\ UNCHANGED outcomes
       ELSE syncPc' = "ran" /\ outcomes' = Append(outcomes, "skipped")
  /\ UNCHANGED <<dsVars, dryVars, histVars, scanVars, checkVars, cmpVars, ctxDone, poolVars, svcVars, journalVars, jdVars, procVars, copyVars,
                 syncImpl, deepDuplicateCheck, syncSrc, syncTgt, lastVersion, syncRun>>

\* Service.processTask: Compare with the version history; RecordFile stores
\* the source's size and modification time for a skipped file.
ManagerCompare ==
  /\ syncImpl = "manager"
  /\ syncPc = "compare"
  /\ IF ManagerNeedsCopy(syncSrc, syncTgt, lastVersion)
       THEN syncPc' = "copy" /\ UNCHANGED <<outcomes, lastVersion>>
       ELSE /\ syncPc' = "ran"
            /\ outcomes' = Append(outcomes, "skipped")
            /\ lastVersion' = [Size |-> Len(syncSrc.Data), ModTime |-> syncSrc.ModTime]
  /\ UNCHANGED <<dsVars, dryVars, histVars, scanVars, checkVars, cmpVars, ctxDone, poolVars, svcVars, journalVars, jdVars, procVars, copyVars,
                 syncImpl, deepDuplicateCheck, syncSrc, syncTgt, syncRun>>

\* Pool.processTask: the skip check of the task manager.
SyncShouldSkipFile ==
  /\ syncImpl = "skipcheck"
  /\ syncPc = "compare"
  /\ IF ShouldSkip(syncSrc, syncTgt, deepDuplicateCheck)
       THEN syncPc' = "ran" /\ outcomes' = Append(outcomes, "skipped")
       ELSE syncPc' = "copy" /\ UNCHANGED outcomes
  /\ UNCHANGED <<dsVars, dryVars, histVars, scanVars, checkVars, cmpVars, ctxDone, poolVars, svcVars, journalVars, jdVars, procVars, copyVars,
                 syncImpl, deepDuplicateCheck, syncSrc, syncTgt, lastVersion, syncRun>>

\* Copier.Copy and VerifyCopy succeed: content, mode (Chmod) and modification
\* time (Chtimes) of the source; RecordFile "copied".
CopierCopy ==
  /\ syncImpl \in {"strategies", "manager"}
  /\ syncPc = "copy"
  /\ syncTgt' = DiskFile(syncSrc.Data, syncSrc.ModTime, syncSrc.Mode)
  /\ outcomes' = Append(outcomes, "copied")
  /\ lastVersion' = IF syncImpl = "manager"
                      THEN [Size |-> Len(syncSrc.Data), ModTime |-> syncSrc.ModTime]
                      ELSE lastVersion
  /\ syncPc' = "ran"
  /\ UNCHANGED <<dsVars, dryVars, histVars, scanVars, checkVars, cmpVars, ctxDone, poolVars, svcVars, journalVars, jdVars, procVars, copyVars,
                 syncImpl, deepDuplicateCheck, syncSrc, syncRun>>

\* Copier.Copy fails: the destination it created stays; RecordFile "failed".
CopierCopyErr ==
  /\ syncImpl \in {"strategies", "manager"}
  /\ syncPc = "copy"
  /\ syncTgt' = Truncated(syncTgt, 0)
  /\ outcomes' = Append(outcomes, "failed")
  /\ lastVersion' = IF syncImpl = "manager"
                      THEN [Size |-> Len(syncSrc.Data), ModTime |-> syncSrc.ModTime]
                      ELSE lastVersion
  /\ syncPc' = "ran"
  /\ UNCHANGED <<dsVars, dryVars, histVars, scanVars, checkVars, cmpVars, ctxDone, poolVars, svcVars, journalVars, jdVars, procVars, copyVars,
                 syncImpl, deepDuplicateCheck, syncSrc, syncRun>>

\* Manager.ExecuteTask: Manager.Copy writes the content and sets the mode; no
\* Chtimes follows, the target keeps the time of the write.
StorageCopy ==
  /\ syncImpl = "skipcheck"
  /\ syncPc = "copy"
  /\ syncTgt' = DiskFile(syncSrc.Data, NowTime, syncSrc.Mode)
  /\ outcomes' = Append(outcomes, "copied")
  /\ syncPc' = "ran"
  /\ UNCHANGED <<dsVars, dryVars, histVars, scanVars, checkVars, cmpVars, ctxDone, poolVars, svcVars, journalVars, jdVars, procVars, copyVars,
                 syncImpl, deepDuplicateCheck, syncSrc, lastVersion, syncRun>>

\* Manager.Copy fails (every retry): the task's outcome is failed.
StorageCopyErr ==
  /\ syncImpl = "skipcheck"
  /\ syncPc = "copy"
  /\ syncTgt' = Truncated(syncTgt, 0)
  /\ outcomes' = Append(outcomes, "failed")
  /\ syncPc' = "ran"
  /\ UNCHANGED <<dsVars, dryVars, histVars, scanVars, checkVars, cmpVars, ctxDone, poolVars, svcVars, journalVars, jdVars, procVars, copyVars,
                 syncImpl, deepDuplicateCheck, syncSrc, lastVersion, syncRun>>

\* The next sync run starts; nothing changed in between.
SyncNextRun ==
  /\ syncPc = "ran"
  /\ syncRun < MaxRuns
  /\ syncRun' = syncRun + 1
  /\ syncPc' = "compare"
  /\ UNCHANGED <<dsVars, dryVars, histVars, scanVars, checkVars, cmpVars, ctxDone, poolVars, svcVars, journalVars, jdVars, procVars, copyVars,
                 syncImpl, deepDuplicateCheck, syncSrc, syncTgt, lastVersion, outcomes>>

NextSync ==
  \/ ProcessorCopyFile
  \/ ProcessorCopyFileErr
  \/ StrategiesCompare
  \/ ManagerCompare
  \/ SyncShouldSkipFile
  \/ CopierCopy
  \/ CopierCopyErr
  \/ StorageCopy
  \/ StorageCopyErr
  \/ SyncNextRun

\* ---------------------------------------------- check: Scanner.Compare
\* Scanner.Compare over a fixed tree: the root (directory 1, files 1 and 2)
\* and its subdirectories "dir1" (directory 2, file 3) and "dir2" (directory
\* 3, file 4); directories and files are numbered in pre-order with names in
\* lexicographic order.  scanFiles fills s.stats, a Go map from directory
\* path to DirectoryStats, with the files of each directory in os.ReadDir
\* order; a directory without files gets no entry.  The range over such a
\* map visits its keys in an order that is not specified and differs from
\* run to run.

ScanDirs == 1..NumScanDirs

ScanFilesOf(d) == IF d = 1 THEN <<1, 2>> ELSE <<d + 1>>

ScanFiles == UNION {{ScanFilesOf(d)[i] : i \in DOMAIN ScanFilesOf(d)} : d \in ScanDirs}

\* s.stats after Scan: the directories that have at least one file.
StatsKeys(present) ==
  {d \in ScanDirs : \E i \in DOMAIN ScanFilesOf(d) : ScanFilesOf(d)[i] \in present}

\* dir.Files: the present files of a directory, in ReadDir order.
RECURSIVE Filter(_, _)
Filter(seq, present) ==
  IF seq = <<>> THEN <<>>
  ELSE IF Head(seq) \in present
         THEN <<Head(seq)>> \o Filter(Tail(seq), present)
         ELSE Filter(Tail(seq), present)

\* The FileComparison appended for a source file: compared with its target
\* file when findFile finds one, StatusNew otherwise.
SourceComparison(f, tgt) ==
  [Path |-> f, Status |-> IF f \in tgt THEN "compared" ELSE "new"]

RECURSIVE SourceComparisons(_, _)
SourceComparisons(files, tgt) ==
  IF files = <<>> THEN <<>>
  ELSE <<SourceComparison(Head(files), tgt)>> \o SourceComparisons(Tail(files), tgt)

\* The FileComparisons appended for the target-only files of a directory.
RECURSIVE MissingComparisons(_, _)
MissingComparisons(files, src) ==
  IF files = <<>> THEN <<>>
  ELSE IF Head(files) \in src
         THEN MissingComparisons(Tail(files), src)
         ELSE <<[Path |-> Head(files), Status |-> "missing"]>>
              \o MissingComparisons(Tail(files), src)

InitCheck ==
  /\ chkSource \in SUBSET ScanFiles
  /\ chkTarget \in SUBSET ScanFiles
  /\ chkRun = 1
  /\ chkPhase = "source"
  /\ chkLeft = StatsKeys(chkSource)
  /\ comparisons = [r \in 1..MaxRuns |-> <<>>]
  /\ dirsVisited = [r \in 1..MaxRuns |-> <<>>]

CheckIdle ==
  /\ chkSource = {}
  /\ chkTarget = {}
  /\ chkRun = 0
  /\ chkPhase = "idle"
  /\ chkLeft = {}
  /\ comparisons = <<>>
  /\ dirsVisited = <<>>

\* One iteration of "for _, dir := range sourceStats": the files of the
\* directory the map range yields next are compared in dir.Files order.
CompareSourceDir(d) ==
  /\ chkPhase = "source"
  /\ d \in chkLeft
  /\ chkLeft' = chkLeft \ {d}
  /\ comparisons' = [comparisons EXCEPT ![chkRun] =
       @ \o SourceComparisons(Filter(ScanFilesOf(d), chkSource), chkTarget)]
  /\ dirsVisited' = [dirsVisited EXCEPT ![chkRun] = Append(@, d)]
  /\ UNCHANGED <<dsVars, dryVars, histVars, scanVars, cmpVars, syncVars, ctxDone, poolVars, svcVars, journalVars, jdVars, procVars,
                 copyVars, chkSource, chkTarget, chkRun, chkPhase>>

\* The range over sourceStats ends; the range over targetStats begins.
CompareSourceDone ==
  /\ chkPhase = "source"
  /\ chkLeft = {}
  /\ chkPhase' = "target"
  /\ chkLeft' = StatsKeys(chkTarget)
  /\ UNCHANGED <<dsVars, dryVars, histVars, scanVars, cmpVars, syncVars, ctxDone, poolVars, svcVars, journalVars, jdVars, procVars,
                 copyVars, chkSource, chkTarget, chkRun, comparisons, dirsVisited>>

\* One iteration of "for _, dir := range targetStats": StatusMissing for the
\* files of the directory that the source does not have.
CompareTargetDir(d) ==
  /\ chkPhase = "target"
  /\ d \in chkLeft
  /\ chkLeft' = chkLeft \ {d}
  /\ comparisons' = [comparisons EXCEPT ![chkRun] =
       @ \o MissingComparisons(Filter(ScanFilesOf(d), chkTarget), chkSource)]
  /\ UNCHANGED <<dsVars, dryVars, histVars, scanVars, cmpVars, syncVars, ctxDone, poolVars, svcVars, journalVars, jdVars, procVars,
                 copyVars, chkSource, chkTarget, chkRun, chkPhase, dirsVisited>>

\* Compare returns the comparisons; printResults prints them in order.
CompareReturn ==
  /\ chkPhase = "target"
  /\ chkLeft = {}
  /\ chkPhase' = "done"
  /\ UNCHANGED <<dsVars, dryVars, histVars, scanVars, cmpVars, syncVars, ctxDone, poolVars, svcVars, journalVars, jdVars, procVars,
                 copyVars, chkSource, chkTarget, chkRun, chkLeft, comparisons, dirsVisited>>

\* check is run again over the unchanged trees.
CheckAgain ==
  /\ chkPhase = "done"
  /\ chkRun < MaxRuns
  /\ chkRun' = chkRun + 1
  /\ chkPhase' = "source"
  /\ chkLeft' = StatsKeys(chkSource)
  /\ UNCHANGED <<dsVars, dryVars, histVars, scanVars, cmpVars, syncVars, ctxDone, poolVars, svcVars, journalVars, jdVars, procVars,
                 copyVars, chkSource, chkTarget, comparisons, dirsVisited>>

NextCheck ==
  \/ \E d \in ScanDirs : CompareSourceDir(d)
  \/ CompareSourceDone
  \/ \E d \in ScanDirs : CompareTargetDir(d)
  \/ CompareReturn
  \/ CheckAgain

\* ------------------------------------------- scan of the source tree
\* The source tree scanned, entries named by their path relative to the
\* source root (the root is the empty path):
\*     a/  a/cache/  a/cache/y.txt  a/x.tmp  cache/  cache/y.txt  x.tmp
\* TreePreOrder lists them as filepath.Walk and the recursion of scanFiles
\* reach them: a directory before its entries, the entries of a directory in
\* lexical order of their names (os.ReadDir and Walk both sort by name).
ScanRoot == <<>>

TreeDirs == {ScanRoot, <<"a">>, <<"a", "cache">>, <<"cache">>}

TreeFiles == {<<"a", "cache", "y.txt">>, <<"a", "x.tmp">>, <<"cache", "y.txt">>, <<"x.tmp">>}

TreePreOrder ==
  << ScanRoot, <<"a">>, <<"a", "cache">>, <<"a", "cache", "y.txt">>, <<"a", "x.tmp">>,
     <<"cache">>, <<"cache", "y.txt">>, <<"x.tmp">> >>

\* config.FoldersToBackup of the backup service: the top-level directories.
FoldersToBackup == {<<"a">>, <<"cache">>}

\* The exclude patterns tried, each split at the path separator.
MaxPatterns == 1

MaxBroken == 1

ScanPatterns ==
  {<<"*.tmp">>, <<"cache">>, <<"a", "cache">>, <<"a", "*.tmp">>, <<"*", "y.txt">>}

\* filepath.Dir and filepath.Base of an entry.
DirOfPath(p) == SubSeq(p, 1, Len(p) - 1)

BaseOfPath(p) == <<p[Len(p)]>>

\* p lies below directory d.
IsUnder(p, d) == Len(p) > Len(d) /\ SubSeq(p, 1, Len(d)) = d

\* filepath.Match on one path element: "*" matches any run of characters
\* that are not separators, other characters match themselves.
MatchName(pat, name) ==
  \/ pat = "*"
  \/ pat = "*.tmp" /\ name = "x.tmp"
  \/ pat = name

\* filepath.Match(pattern, path): no element of the pattern matches across a
\* separator, so pattern and path match element by element.
PathMatch(pattern, path) ==
  /\ Len(pattern) = Len(path)
  /\ \A i \in 1..Len(pattern) : MatchName(pattern[i], path[i])

matchesPattern(path, patterns) == \E pattern \in patterns : PathMatch(pattern, path)

\* What filepath.Walk and the loop of scanFiles leave to visit when the
\* directory d is not entered.
SkipDir(todo, d) == SelectSeq(todo, LAMBDA p : ~IsUnder(p, d))

\* The entries Service.scanSourceDirectory walks: the folders and what they hold.
FolderEntries == SelectSeq(TreePreOrder, LAMBDA p : \E d \in FoldersToBackup : p = d \/ IsUnder(p, d))

ScanError(p, op) == [Path |-> p, Op |-> op]

InitScan ==
  /\ scanImpl \in {"scanner", "service"}
  /\ excludePatterns \in {ps \in SUBSET ScanPatterns : Cardinality(ps) <= MaxPatterns}
  /\ broken \in {b \in SUBSET (TreeDirs \cup TreeFiles) : Cardinality(b) <= MaxBroken}
  /\ scanPc = "start"
  /\ scanTodo = <<>>
  /\ totalFiles = 0
  /\ scannedFiles = 0
  /\ scannedDirs = 0
  /\ excludedFiles = 0
  /\ excludedDirs = 0
  /\ scanErrors = <<>>
  /\ scanStats = [d \in TreeDirs |-> <<>>]
  /\ svcTasks = <<>>
  /\ scanResult = "none"

ScanIdle ==
  /\ scanImpl = "none"
  /\ excludePatterns = {}
  /\ broken = {}
  /\ scanPc = "idle"
  /\ scanTodo = <<>>
  /\ totalFiles = 0
  /\ scannedFiles = 0
  /\ scannedDirs = 0
  /\ excludedFiles = 0
  /\ excludedDirs = 0
  /\ scanErrors = <<>>
  /\ scanStats = <<>>
  /\ svcTasks = <<>>
  /\ scanResult = "none"

\* Scanner.Scan: the counters are reset and the counting pass begins.
ScannerScan ==
  /\ scanImpl = "scanner"
  /\ scanPc = "start"
  /\ scanPc' = "count"
  /\ scanTodo' = TreePreOrder
  /\ totalFiles' = 0
  /\ scannedFiles' = 0
  /\ scannedDirs' = 0
  /\ excludedFiles' = 0
  /\ excludedDirs' = 0
  /\ UNCHANGED <<dsVars, dryVars, histVars, checkVars, cmpVars, syncVars, ctxDone, poolVars, svcVars, journalVars, jdVars,
                 procVars, copyVars, scanImpl, excludePatterns, broken, scanErrors,
                 scanStats, svcTasks, scanResult>>

\* countFiles: one call of the function handed to filepath.Walk.  An entry
\* whose lstat or ReadDir failed is recorded and Walk goes on without entering
\* it; a directory other than the root is matched by its path relative to
\* the root and skipped with SkipDir, a file likewise.
CountVisit ==
  /\ scanPc = "count"
  /\ scanTodo # <<>>
  /\ LET p == Head(scanTodo) IN
       IF p \in broken
         THEN /\ scanErrors' = Append(scanErrors, ScanError(p, "access"))
              /\ scanTodo' = SkipDir(Tail(scanTodo), p)
              /\ UNCHANGED <<totalFiles, scannedDirs, excludedFiles, excludedDirs>>
       ELSE IF p \in TreeDirs
         THEN IF p # ScanRoot /\ matchesPattern(p, excludePatterns)
                THEN /\ excludedDirs' = excludedDirs + 1
                     /\ scanTodo' = SkipDir(Tail(scanTodo), p)
                     /\ UNCHANGED <<totalFiles, scannedDirs, excludedFiles, scanErrors>>
                ELSE /\ scannedDirs' = scannedDirs + 1
                     /\ scanTodo' = Tail(scanTodo)
                     /\ UNCHANGED <<totalFiles, excludedFiles, excludedDirs, scanErrors>>
       ELSE IF matchesPattern(p, excludePatterns)
         THEN /\ excludedFiles' = excludedFiles + 1
              /\ scanTodo' = Tail(scanTodo)
              /\ UNCHANGED <<totalFiles, scannedDirs, excludedDirs, scanErrors>>
         ELSE /\ totalFiles' = totalFiles + 1
              /\ scanTodo' = Tail(scanTodo)
              /\ UNCHANGED <<scannedDirs, excludedFiles, excludedDirs, scanErrors>>
  /\ UNCHANGED <<dsVars, dryVars, histVars, checkVars, cmpVars, syncVars, ctxDone, poolVars, svcVars, journalVars, jdVars,
                 procVars, copyVars, scanImpl, excludePatterns, broken, scanPc,
                 scannedFiles, scanStats, svcTasks, scanResult>>

\* Scan: countFiles returned nil (its function never returns an error), the
\* detailed pass begins with scanFiles(root, 0).
CountDone ==
  /\ scanPc = "count"
  /\ scanTodo = <<>>
  /\ scanPc' = "scan"
  /\ scanTodo' = TreePreOrder
  /\ UNCHANGED <<dsVars, dryVars, histVars, checkVars, cmpVars, syncVars, ctxDone, poolVars, svcVars, journalVars, jdVars,
                 procVars, copyVars, scanImpl, excludePatterns, broken, totalFiles,
                 scannedFiles, scannedDirs, excludedFiles, excludedDirs, scanErrors,
                 scanStats, svcTasks, scanResult>>

\* scanFiles: the call for the root, or one entry of the loop over the
\* entries of a directory.  Every call of scanFiles takes the directory it
\* was called for as absRoot, so the relative path matched against the
\* patterns is the name of the entry within its directory.  A directory that
\* is not excluded is entered by the recursive call; a failed ReadDir or
\* Info is recorded and the loop goes on.
ScanVisit ==
  /\ scanPc = "scan"
  /\ scanTodo # <<>>
  /\ LET p == Head(scanTodo) IN
       IF p \in broken
         THEN /\ scanErrors' = Append(scanErrors,
                     ScanError(p, IF p = ScanRoot THEN "read_dir" ELSE "stat"))
              /\ scanTodo' = SkipDir(Tail(scanTodo), p)
              /\ UNCHANGED <<scannedFiles, scanStats>>
       ELSE IF p \in TreeDirs
         THEN /\ scanTodo' = IF p # ScanRoot /\ matchesPattern(BaseOfPath(p), excludePatterns)
                               THEN SkipDir(Tail(scanTodo), p)
                               ELSE Tail(scanTodo)
              /\ UNCHANGED <<scannedFiles, scanStats, scanErrors>>
       ELSE IF matchesPattern(BaseOfPath(p), excludePatterns)
         THEN /\ scanTodo' = Tail(scanTodo)
              /\ UNCHANGED <<scannedFiles, scanStats, scanErrors>>
         ELSE /\ scannedFiles' = scannedFiles + 1
              /\ scanStats' = [scanStats EXCEPT ![DirOfPath(p)] = Append(@, p)]
              /\ scanTodo' = Tail(scanTodo)
              /\ UNCHANGED scanErrors
  /\ UNCHANGED <<dsVars, dryVars, histVars, checkVars, cmpVars, syncVars, ctxDone, poolVars, svcVars, journalVars, jdVars,
                 procVars, copyVars, scanImpl, excludePatterns, broken, scanPc,
                 totalFiles, scannedDirs, excludedFiles, excludedDirs, svcTasks, scanResult>>

\* Scan: scanFiles returned nil, Scan returns the progress and no error.
ScanDone ==
  /\ scanPc = "scan"
  /\ scanTodo = <<>>
  /\ scanPc' = "done"
  /\ scanResult' = "ok"
  /\ UNCHANGED <<dsVars, dryVars, histVars, checkVars, cmpVars, syncVars, ctxDone, poolVars, svcVars, journalVars, jdVars,
                 procVars, copyVars, scanImpl, excludePatterns, broken, scanTodo,
                 totalFiles, scannedFiles, scannedDirs, excludedFiles, excludedDirs,
                 scanErrors, scanStats, svcTasks>>

\* Service.scanSourceDirectory: filepath.Walk over each folder to back up.
ServiceScan ==
  /\ scanImpl = "service"
  /\ scanPc = "start"
  /\ scanPc' = "walk"
  /\ scanTodo' = FolderEntries
  /\ UNCHANGED <<dsVars, dryVars, histVars, checkVars, cmpVars, syncVars, ctxDone, poolVars, svcVars, journalVars, jdVars,
                 procVars, copyVars, scanImpl, excludePatterns, broken, totalFiles,
                 scannedFiles, scannedDirs, excludedFiles, excludedDirs, scanErrors,
                 scanStats, svcTasks, scanResult>>

\* One call of the function scanSourceDirectory hands to filepath.Walk: an
\* error is returned as it is, which ends the walk and the scan; directories
\* are passed over; a file is matched by info.Name() against each pattern
\* and becomes a BackupTask when none matches.
ServiceWalkVisit ==
  /\ scanPc = "walk"
  /\ scanTodo # <<>>
  /\ LET p == Head(scanTodo) IN
       IF p \in broken
         THEN /\ scanResult' = "error"
              /\ scanPc' = "done"
              /\ svcTasks' = <<>>
              /\ scanTodo' = <<>>
       ELSE IF p \in TreeDirs \/ matchesPattern(BaseOfPath(p), excludePatterns)
         THEN /\ scanTodo' = Tail(scanTodo)
              /\ UNCHANGED <<svcTasks, scanResult, scanPc>>
         ELSE /\ svcTasks' = Append(svcTasks, p)
              /\ scanTodo' = Tail(scanTodo)
              /\ UNCHANGED <<scanResult, scanPc>>
  /\ UNCHANGED <<dsVars, dryVars, histVars, checkVars, cmpVars, syncVars, ctxDone, poolVars, svcVars, journalVars, jdVars,
                 procVars, copyVars, scanImpl, excludePatterns, broken, totalFiles,
                 scannedFiles, scannedDirs, excludedFiles, excludedDirs, scanErrors,
                 scanStats>>

\* scanSourceDirectory returns the tasks after the last folder.
ServiceScanDone ==
  /\ scanPc = "walk"
  /\ scanTodo = <<>>
  /\ scanPc' = "done"
  /\ scanResult' = "ok"
  /\ UNCHANGED <<dsVars, dryVars, histVars, checkVars, cmpVars, syncVars, ctxDone, poolVars, svcVars, journalVars, jdVars,
                 procVars, copyVars, scanImpl, excludePatterns, broken, scanTodo,
                 totalFiles, scannedFiles, scannedDirs, excludedFiles, excludedDirs,
                 scanErrors, scanStats, svcTasks>>

NextScan ==
  \/ ScannerScan
  \/ CountVisit
  \/ CountDone
  \/ ScanVisit
  \/ ScanDone
  \/ ServiceScan
  \/ ServiceWalkVisit
  \/ ServiceScanDone

\* ---------------------------------------------------------- run history
\* The version files of the target over many runs.  A version's ID is
\* time.Now().Format("20060102-150405"): the wall clock cut to the second, so
\* ids are modelled by the second they name, and the order of the file names
\* is the order of the seconds.  StartTime (Timestamp) is a time.Now() of
\* its own, with its full resolution: no two are equal.
MaxStored == 30
MaxDryTasks == 2

HistIds == 1..(MaxStored + MaxRuns)

\* No file / currentVer = nil.
NoRecord == [ID |-> 0, StartTime |-> 0]

\* A file whose content json.Unmarshal rejects.
CorruptRecord == [ID |-> -1, StartTime |-> -1]

BackupVersion(id, startTime) == [ID |-> id, StartTime |-> startTime]

\* The ids that have a file.
PresentIds(files) == {id \in HistIds : files[id] # NoRecord}

\* The files as os.ReadDir lists them (sorted by name), each unmarshalled.
RECURSIVE ReadDirVersions(_, _)
ReadDirVersions(files, ids) ==
  IF ids = {} THEN <<>>
  ELSE LET first == CHOOSE id \in ids : \A j \in ids : id <= j
       IN <<files[first]>> \o ReadDirVersions(files, ids \ {first})

\* sort.Slice(summaries, StartTime.After): newest StartTime first.
RECURSIVE SortByStartTimeDesc(_)
SortByStartTimeDesc(summaries) ==
  IF summaries = {} THEN <<>>
  ELSE LET newest == CHOOSE v \in summaries : \A w \in summaries : v.StartTime >= w.StartTime
       IN <<newest>> \o SortByStartTimeDesc(summaries \ {newest})

InitHist ==
  /\ hImpl \in {"manager", "filevm"}
  /\ hStored \in 0..MaxStored
  /\ hCorrupt \in {"none", "index", "version"}
  /\ hPc = "init"
  /\ hSecond = hStored + 1
  /\ hInstant = MaxStored
  /\ hCurrent = NoRecord
  /\ hFiles = [id \in HistIds |->
                 IF id > hStored THEN NoRecord
                 ELSE IF id = hStored /\ hCorrupt = "version" THEN CorruptRecord
                 ELSE BackupVersion(id, id)]
  /\ hVersions = <<>>
  /\ hStarted = <<>>
  /\ hHistory = <<>>
  /\ hHistErr = FALSE

HistIdle ==
  /\ hImpl = "none"
  /\ hStored = 0
  /\ hCorrupt = "none"
  /\ hPc = "idle"
  /\ hSecond = 0
  /\ hInstant = 0
  /\ hCurrent = NoRecord
  /\ hFiles = <<>>
  /\ hVersions = <<>>
  /\ hStarted = <<>>
  /\ hHistory = <<>>
  /\ hHistErr = FALSE

\* NewManager: loadIndex reads and parses .versions/index.json; a parse
\* error is returned and NewService fails with it.  The version files are
\* not read.
NewManager ==
  /\ hImpl = "manager"
  /\ hPc = "init"
  /\ hPc' = IF hCorrupt = "index" THEN "failed" ELSE "ready"
  /\ UNCHANGED <<dsVars, dryVars, scanVars, checkVars, cmpVars, syncVars, ctxDone, poolVars, svcVars, journalVars,
                 jdVars, procVars, copyVars, hImpl, hStored, hCorrupt, hSecond, hInstant,
                 hCurrent, hFiles, hVersions, hStarted, hHistory, hHistErr>>

\* NewFileVersionManager: loadVersions reads every version file in ReadDir
\* order and appends it to vm.versions; a file that does not parse makes it
\* return the error.  It keeps no index file.
NewFileVersionManager ==
  /\ hImpl = "filevm"
  /\ hPc = "init"
  /\ IF CorruptRecord \in {hFiles[id] : id \in HistIds}
       THEN /\ hPc' = "failed"
            /\ UNCHANGED hVersions
       ELSE /\ hPc' = "ready"
            /\ hVersions' = ReadDirVersions(hFiles, PresentIds(hFiles))
  /\ UNCHANGED <<dsVars, dryVars, scanVars, checkVars, cmpVars, syncVars, ctxDone, poolVars, svcVars, journalVars,
                 jdVars, procVars, copyVars, hImpl, hStored, hCorrupt, hSecond, hInstant,
                 hCurrent, hFiles, hStarted, hHistory, hHistErr>>

\* The wall clock reaches the next second (as far as the ids provided go).
ClockTick ==
  /\ hSecond < hStored + MaxRuns
  /\ hSecond' = hSecond + 1
  /\ UNCHANGED <<dsVars, dryVars, scanVars, checkVars, cmpVars, syncVars, ctxDone, poolVars, svcVars, journalVars,
                 jdVars, procVars, copyVars, hImpl, hStored, hCorrupt, hPc, hInstant,
                 hCurrent, hFiles, hVersions, hStarted, hHistory, hHistErr>>

\* StartNewVersion (both managers): ID from the clock's second, StartTime /
\* Timestamp from time.Now(); the version becomes currentVer and is returned.
\* Nothing looks for an existing version of that ID.
HistStartNewVersion ==
  /\ hPc = "ready"
  /\ hCurrent = NoRecord
  /\ Len(hStarted) < MaxRuns
  /\ hInstant' = hInstant + 1
  /\ hCurrent' = BackupVersion(hSecond, hInstant + 1)
  /\ hStarted' = Append(hStarted, BackupVersion(hSecond, hInstant + 1))
  /\ UNCHANGED <<dsVars, dryVars, scanVars, checkVars, cmpVars, syncVars, ctxDone, poolVars, svcVars, journalVars,
                 jdVars, procVars, copyVars, hImpl, hStored, hCorrupt, hPc, hSecond,
                 hFiles, hVersions, hHistory, hHistErr>>

\* CompleteVersion without a failing write.  Manager: os.WriteFile of
\* <ID>.json, then cleanupOldVersions removes the files after the first
\* maxVersions in descending name order.  FileVersionManager: saveVersion
\* writes <ID>.json and the version is appended to vm.versions; no file is
\* ever removed.
HistCompleteVersion ==
  /\ hPc = "ready"
  /\ hCurrent # NoRecord
  /\ LET saved == [hFiles EXCEPT ![hCurrent.ID] = hCurrent] IN
       IF hImpl = "manager"
         THEN /\ hFiles' = [id \in HistIds |->
                              IF id \in ExcessVersions(PresentIds(saved))
                                THEN NoRecord ELSE saved[id]]
              /\ UNCHANGED hVersions
         ELSE /\ hFiles' = saved
              /\ hVersions' = Append(hVersions, hCurrent)
  /\ hCurrent' = NoRecord
  /\ UNCHANGED <<dsVars, dryVars, scanVars, checkVars, cmpVars, syncVars, ctxDone, poolVars, svcVars, journalVars,
                 jdVars, procVars, copyVars, hImpl, hStored, hCorrupt, hPc, hSecond,
                 hInstant, hStarted, hHistory, hHistErr>>

\* The history is listed.  Manager.GetVersions reads every version file (an
\* unparsable one is an error) and sorts the summaries by StartTime, newest
\* first.  FileVersionManager.GetVersions returns vm.versions as it is and
\* FormatVersionList prints it in that order.
GetVersions ==
  /\ hPc = "ready"
  /\ IF hImpl = "manager"
       THEN IF CorruptRecord \in {hFiles[id] : id \in HistIds}
              THEN /\ hHistory' = <<>>
                   /\ hHistErr' = TRUE
              ELSE /\ hHistory' = SortByStartTimeDesc({hFiles[id] : id \in PresentIds(hFiles)})
                   /\ hHistErr' = FALSE
       ELSE /\ hHistory' = hVersions
            /\ hHistErr' = FALSE
  /\ UNCHANGED <<dsVars, dryVars, scanVars, checkVars, cmpVars, syncVars, ctxDone, poolVars, svcVars, journalVars,
                 jdVars, procVars, copyVars, hImpl, hStored, hCorrupt, hPc, hSecond,
                 hInstant, hCurrent, hFiles, hVersions, hStarted>>

NextHist ==
  \/ NewManager
  \/ NewFileVersionManager
  \/ ClockTick
  \/ HistStartNewVersion
  \/ HistCompleteVersion
  \/ GetVersions

\* ------------------------------------------------------------------ dry run
\* A dry run as the command line starts it (commands.cli.Execute:
\* Factory.CreateBackupService, then core Service.DryRun), and the analysis
\* operations of RunRsync, which run rsync with -n.  The file system is seen
\* through the directories that exist; no step of either path writes a file.

DryTasks == 1..MaxDryTasks

\* What the storage reports for a task: the destination exists, source and
\* destination have the same size, the same checksum.
DryTaskStates == [DestExists : BOOLEAN, SizeEqual : BOOLEAN, ChecksumEqual : BOOLEAN]

TargetDir == "target"

VersionsDir == "target/.versions"

IncludeDir == "target/a"

ZeroDryStats == [FilesToCopy |-> 0, SkippedFiles |-> 0, TotalFiles |-> 0]

\* os.MkdirAll: the directory and every missing ancestor exist afterwards.
MkdirAll(dirs, path) == dirs \cup {TargetDir, path}

\* task.Manager.ShouldSkipFile, for a destination that exists.
DryShouldSkipFile(t) ==
  IF ~t.DestExists THEN FALSE
  ELSE IF ~t.SizeEqual THEN FALSE
  ELSE IF dryDeep THEN t.ChecksumEqual
  ELSE TRUE

\* DryRunStats.UpdateForFile.
UpdateForFile(s, willCopy) ==
  IF willCopy THEN [s EXCEPT !.FilesToCopy = @ + 1]
  ELSE [s EXCEPT !.SkippedFiles = @ + 1]

InitDry ==
  /\ dryImpl \in {"cli", "rsync"}
  /\ dryDeep \in BOOLEAN
  /\ dryTasks \in [DryTasks -> DryTaskStates]
  /\ includeDirs \in {<<>>, <<IncludeDir>>}
  /\ dryImpl = "cli" => includeDirs = <<>>
  /\ dryImpl = "rsync" => dryDeep = FALSE
  /\ dryDirs0 \in {{}, {TargetDir}, {TargetDir, VersionsDir}, {TargetDir, IncludeDir},
                   {TargetDir, VersionsDir, IncludeDir}}
  /\ dryDirs = dryDirs0
  /\ dryPc = "start"
  /\ dryIdx = 0
  /\ dryStats = ZeroDryStats
  /\ dryErr = "none"

DryIdle ==
  /\ dryImpl = "none"
  /\ dryDeep = FALSE
  /\ dryTasks = <<>>
  /\ includeDirs = <<>>
  /\ dryDirs0 = {}
  /\ dryDirs = {}
  /\ dryPc = "idle"
  /\ dryIdx = 0
  /\ dryStats = ZeroDryStats
  /\ dryErr = "none"

\* cli.Execute with --dry-run: the service is built first.
\* NewFileVersionManager(config.TargetDirectory) creates <target>/.versions
\* with os.MkdirAll and loads the versions stored there.
CreateBackupService ==
  /\ dryImpl = "cli"
  /\ dryPc = "start"
  /\ dryDirs' = MkdirAll(dryDirs, VersionsDir)
  /\ dryPc' = "service"
  /\ UNCHANGED <<dsVars, histVars, scanVars, checkVars, cmpVars, syncVars, ctxDone, poolVars, svcVars, journalVars, jdVars, procVars, copyVars,
                 dryImpl, dryDeep, dryTasks, includeDirs, dryDirs0, dryIdx, dryStats, dryErr>>

\* CreateBackupService fails (the configuration does not load, or the
\* versions directory cannot be created or read): Execute returns 1.
CreateBackupServiceErr ==
  /\ dryImpl = "cli"
  /\ dryPc = "start"
  /\ dryErr' = "failed to create service"
  /\ dryPc' = "done"
  /\ UNCHANGED <<dsVars, histVars, scanVars, checkVars, cmpVars, syncVars, ctxDone, poolVars, svcVars, journalVars, jdVars, procVars, copyVars,
                 dryImpl, dryDeep, dryTasks, includeDirs, dryDirs0, dryDirs, dryIdx, dryStats>>

\* Service.DryRun: the tasks are created against a temporary target
\* directory, nothing is created there.
DryRunCreateTasks ==
  /\ dryImpl = "cli"
  /\ dryPc = "service"
  /\ dryStats' = [ZeroDryStats EXCEPT !.TotalFiles = MaxDryTasks]
  /\ dryIdx' = 1
  /\ dryPc' = "tasks"
  /\ UNCHANGED <<dsVars, histVars, scanVars, checkVars, cmpVars, syncVars, ctxDone, poolVars, svcVars, journalVars, jdVars, procVars, copyVars,
                 dryImpl, dryDeep, dryTasks, includeDirs, dryDirs0, dryDirs, dryErr>>

\* CreateTasks fails: DryRun returns the error.
DryRunCreateTasksErr ==
  /\ dryImpl = "cli"
  /\ dryPc = "service"
  /\ dryErr' = "failed to create backup tasks"
  /\ dryPc' = "done"
  /\ UNCHANGED <<dsVars, histVars, scanVars, checkVars, cmpVars, syncVars, ctxDone, poolVars, svcVars, journalVars, jdVars, procVars, copyVars,
                 dryImpl, dryDeep, dryTasks, includeDirs, dryDirs0, dryDirs, dryIdx, dryStats>>

\* Service.DryRun, one task of the loop: Exists and ShouldSkipFile only read;
\* the task is counted as to copy or to skip.
DryRunTask ==
  /\ dryImpl = "cli"
  /\ dryPc = "tasks"
  /\ dryIdx <= MaxDryTasks
  /\ LET t == dryTasks[dryIdx]
         willCopy == ~(t.DestExists /\ DryShouldSkipFile(t))
     IN  dryStats' = UpdateForFile(dryStats, willCopy)
  /\ dryIdx' = dryIdx + 1
  /\ UNCHANGED <<dsVars, histVars, scanVars, checkVars, cmpVars, syncVars, ctxDone, poolVars, svcVars, journalVars, jdVars, procVars, copyVars,
                 dryImpl, dryDeep, dryTasks, includeDirs, dryDirs0, dryDirs, dryPc, dryErr>>

\* Service.DryRun: the statistics are printed, nil is returned.
DryRunDone ==
  /\ dryImpl = "cli"
  /\ dryPc = "tasks"
  /\ dryIdx > MaxDryTasks
  /\ dryPc' = "done"
  /\ UNCHANGED <<dsVars, histVars, scanVars, checkVars, cmpVars, syncVars, ctxDone, poolVars, svcVars, journalVars, jdVars, procVars, copyVars,
                 dryImpl, dryDeep, dryTasks, includeDirs, dryDirs0, dryDirs, dryIdx, dryStats, dryErr>>

\* RunRsync(AnalyzeChanges | AnalyzeDeletions): opts.DryRun is set and the
\* base command gets -n.
RunRsync ==
  /\ dryImpl = "rsync"
  /\ dryPc = "start"
  /\ dryIdx' = 1
  /\ dryPc' = "dirs"
  /\ UNCHANGED <<dsVars, histVars, scanVars, checkVars, cmpVars, syncVars, ctxDone, poolVars, svcVars, journalVars, jdVars, procVars, copyVars,
                 dryImpl, dryDeep, dryTasks, includeDirs, dryDirs0, dryDirs, dryStats, dryErr>>

\* runForSingleDirectory for an include directory: the target directory is
\* created with os.MkdirAll whatever the flags are, then rsync -n runs and
\* its "files transferred" count is added.
RunForIncludeDirectory ==
  /\ dryImpl = "rsync"
  /\ dryPc = "dirs"
  /\ dryIdx <= Len(includeDirs)
  /\ dryDirs' = MkdirAll(dryDirs, includeDirs[dryIdx])
  /\ \E ok \in BOOLEAN :
       IF ok
         THEN /\ dryStats' = [dryStats EXCEPT !.FilesToCopy =
                   @ + Cardinality({i \in DryTasks : ~(dryTasks[i].DestExists /\ dryTasks[i].SizeEqual)})]
              /\ dryIdx' = dryIdx + 1
              /\ UNCHANGED <<dryPc, dryErr>>
         ELSE /\ dryErr' = "rsync failed"
              /\ dryPc' = "done"
              /\ UNCHANGED <<dryStats, dryIdx>>
  /\ UNCHANGED <<dsVars, histVars, scanVars, checkVars, cmpVars, syncVars, ctxDone, poolVars, svcVars, journalVars, jdVars, procVars, copyVars,
                 dryImpl, dryDeep, dryTasks, includeDirs, dryDirs0>>

\* runForSingleDirectory("") when no include directory is configured: no
\* directory is created, rsync -n runs over the whole source and target.
RunForWholeTree ==
  /\ dryImpl = "rsync"
  /\ dryPc = "dirs"
  /\ includeDirs = <<>>
  /\ \E ok \in BOOLEAN :
       IF ok
         THEN /\ dryStats' = [dryStats EXCEPT !.FilesToCopy =
                   Cardinality({i \in DryTasks : ~(dryTasks[i].DestExists /\ dryTasks[i].SizeEqual)})]
              /\ dryErr' = dryErr
         ELSE /\ dryErr' = "rsync failed"
              /\ dryStats' = dryStats
  /\ dryPc' = "done"
  /\ UNCHANGED <<dsVars, histVars, scanVars, checkVars, cmpVars, syncVars, ctxDone, poolVars, svcVars, journalVars, jdVars, procVars, copyVars,
                 dryImpl, dryDeep, dryTasks, includeDirs, dryDirs0, dryDirs, dryIdx>>

\* RunRsync: every include directory was processed.
RunRsyncDone ==
  /\ dryImpl = "rsync"
  /\ dryPc = "dirs"
  /\ includeDirs # <<>>
  /\ dryIdx > Len(includeDirs)
  /\ dryPc' = "done"
  /\ UNCHANGED <<dsVars, histVars, scanVars, checkVars, cmpVars, syncVars, ctxDone, poolVars, svcVars, journalVars, jdVars, procVars, copyVars,
                 dryImpl, dryDeep, dryTasks, includeDirs, dryDirs0, dryDirs, dryIdx, dryStats, dryErr>>

NextDry ==
  \/ CreateBackupService
  \/ CreateBackupServiceErr
  \/ DryRunCreateTasks
  \/ DryRunCreateTasksErr
  \/ DryRunTask
  \/ DryRunDone
  \/ RunRsync
  \/ RunForIncludeDirectory
  \/ RunForWholeTree
  \/ RunRsyncDone

\* ------------------------------------- per-directory statistics of a run
\* Manager.StartNewVersion and the "Update directory stats" part of
\* Manager.RecordFile.  Paths are strings, modelled as sequences of
\* characters, since RecordFile compares them with strings.HasPrefix.

FolderA == <<"a">>

FolderAb == <<"a", "b">>

FolderC == <<"c">>

\* The files of the source tree, by their path relative to the source
\* directory (BackupTask.RelativePath).
DsFiles == {<<"a", "/", "x">>, <<"a", "/", "s", "/", "w">>, <<"a", "b", "/", "y">>,
            <<"c", "/", "z">>}

\* strings.HasPrefix.
HasPrefix(s, prefix) ==
  Len(prefix) <= Len(s) /\ SubSeq(s, 1, Len(prefix)) = prefix

\* filepath.Dir of a relative path: everything before the last separator.
FilepathDir(path) ==
  LET seps == {i \in DOMAIN path : path[i] = "/"}
  IN  IF seps = {} THEN <<".">>
      ELSE SubSeq(path, 1, (CHOOSE i \in seps : \A j \in seps : j <= i) - 1)

\* The folder holds the file: the file's directory is the folder or lies
\* below it.
FolderContains(folder, path) ==
  \/ FilepathDir(path) = folder
  \/ HasPrefix(FilepathDir(path), folder \o <<"/">>)

\* scanSourceDirectory walks the configured folders: the tasks are the files
\* under one of them.
FilesUnder(folders) == {p \in DsFiles : \E d \in folders : FolderContains(d, p)}

ZeroDirStats == [TotalFiles |-> 0, CopiedFiles |-> 0, SkippedFiles |-> 0, FailedFiles |-> 0]

\* RecordFile: the switch on status inside the range over Directories.
CountDir(st, status) ==
  CASE status = "copied"  -> [st EXCEPT !.TotalFiles = @ + 1, !.CopiedFiles = @ + 1]
    [] status = "skipped" -> [st EXCEPT !.TotalFiles = @ + 1, !.SkippedFiles = @ + 1]
    [] status = "failed"  -> [st EXCEPT !.TotalFiles = @ + 1, !.FailedFiles = @ + 1]
    [] OTHER -> st

InitDirStats ==
  /\ dsFolders \in (SUBSET {FolderA, FolderAb, FolderC}) \ {{}}
  /\ dsPc = "start"
  /\ dsDirectories = <<>>
  /\ dsTotal = ZeroTotal
  /\ dsRecorded = {}

DirStatsIdle ==
  /\ dsFolders = {}
  /\ dsPc = "idle"
  /\ dsDirectories = <<>>
  /\ dsTotal = ZeroTotal
  /\ dsRecorded = {}

\* StartNewVersion: Stats.Directories gets an empty DirectoryStats for every
\* configured folder.
DsStartNewVersion ==
  /\ dsPc = "start"
  /\ dsDirectories' = [d \in dsFolders |-> ZeroDirStats]
  /\ dsPc' = "open"
  /\ UNCHANGED <<dryVars, histVars, scanVars, checkVars, cmpVars, syncVars, ctxDone, poolVars, svcVars, journalVars, jdVars, procVars, copyVars,
                 dsFolders, dsTotal, dsRecorded>>

\* RecordFile(path, status, ...) for a scanned file: the range over the
\* Directories map yields the folders in an order of the runtime's choosing;
\* the first folder the file's directory has as a string prefix is counted
\* and the loop is left.  Then the totals are counted.
DsRecordFile(path, status) ==
  /\ dsPc = "open"
  /\ path \in FilesUnder(dsFolders)
  /\ \A r \in dsRecorded : r.Path # path
  /\ LET matching == {d \in dsFolders : HasPrefix(FilepathDir(path), d)}
     IN  IF matching = {}
           THEN dsDirectories' = dsDirectories
           ELSE \E d \in matching :
                  dsDirectories' = [dsDirectories EXCEPT ![d] = CountDir(@, status)]
  /\ dsTotal' = CountAction([dsTotal EXCEPT !.TotalFiles = @ + 1], status)
  /\ dsRecorded' = dsRecorded \cup {[Path |-> path, Action |-> status]}
  /\ UNCHANGED <<dryVars, histVars, scanVars, checkVars, cmpVars, syncVars, ctxDone, poolVars, svcVars, journalVars, jdVars, procVars, copyVars,
                 dsFolders, dsPc>>

NextDirStats ==
  \/ DsStartNewVersion
  \/ \E path \in DsFiles, status \in Statuses : DsRecordFile(path, status)

\* --------------------------------------------------------- specifications
\* A subsystem that is not running: its variables at rest.
PoolIdle ==
  /\ workers = minWorkers
  /\ retryAttempts = 0
  /\ taskCh = <<>>
  /\ taskChClosed = FALSE
  /\ feedIdx = 1
  /\ feedPc = "idle"
  /\ resultCh = <<>>
  /\ resultClosed = FALSE
  /\ wpc = [w \in WorkerIds |-> "idle"]
  /\ wtask = [w \in WorkerIds |-> 0]
  /\ attempt = [w \in WorkerIds |-> 0]
  /\ wresult = [w \in WorkerIds |-> NoResult]
  /\ execCount = [w \in WorkerIds |-> 0]
  /\ execFail = [w \in WorkerIds |-> 0]
  /\ produced = [t \in Tasks |-> <<>>]
  /\ bpc = "idle"
  /\ received = [t \in Tasks |-> <<>>]
  /\ bStarted = FALSE
  /\ bCompleted = FALSE

SvcIdle ==
  /\ concurrency = 1
  /\ sPc = "idle"
  /\ sErr = "none"
  /\ dPc = "idle"
  /\ dIdx = 1
  /\ sem = 0
  /\ errChan = 0
  /\ doneChan = FALSE
  /\ tpc = [t \in Tasks |-> "none"]
  /\ terr = [t \in Tasks |-> FALSE]
  /\ rstatus = [t \in Tasks |-> "none"]
  /\ rsize = [t \in Tasks |-> 0]
  /\ rfChanges = [t \in Tasks |-> <<>>]
  /\ rfTotal = [t \in Tasks |-> 0]
  /\ stats = ZeroStats
  /\ statsPtr = 0
  /\ oldStats = [t \in Tasks |-> NoLoad]

JournalIdle ==
  /\ currentVer = NoVersion
  /\ index = [t \in Tasks |-> NoEntry]
  /\ savedIndex = index
  /\ versionFiles = [id \in VersionIds |-> NoFile]

JournalDriverIdle ==
  /\ jPc = "idle"
  /\ jRuns = 0
  /\ wStage = 0
  /\ indexTmp = NoFile

ProcIdle ==
  /\ srcMaxThreads = 1
  /\ tgtMaxThreads = 1
  /\ pPc = "idle"
  /\ pFolder = 1
  /\ pErr = "none"
  /\ pStack = <<>>
  /\ dirErrs = [d \in Dirs |-> 0]
  /\ dirState = [d \in Dirs |-> "none"]
  /\ fpc = [f \in Files |-> "none"]
  /\ pSem = 0
  /\ trCurrent = 0
  /\ trReported = [d \in Dirs |-> 0]
  /\ trProcessed = 0
  /\ trDone = [d \in Dirs |-> 0]
  /\ trUpdated = {}
  /\ srcStorageType = "hdd"
  /\ tgtStorageType = "hdd"

CopyIdle ==
  /\ srcBlocks = 0
  /\ cPc = "idle"
  /\ written = 0
  /\ dst = NoDst
  /\ cErr = "none"

InitPoolSpec ==
  /\ ctxDone = FALSE
  /\ InitPool
  /\ SvcIdle
  /\ JournalIdle
  /\ JournalDriverIdle
  /\ ProcIdle
  /\ CopyIdle
  /\ CompareIdle
  /\ SyncIdle
  /\ CheckIdle
  /\ ScanIdle
  /\ HistIdle
  /\ DryIdle
  /\ DirStatsIdle

SpecPool == InitPoolSpec /\ [][NextPool]_vars

\* Every goroutine of the pool that can take a step eventually takes one: the
\* feeder, each worker, the goroutine that waits for the workers and closes
\* resultCh, and the caller ranging over the results.  The cancellation is
\* not forced to happen.
WorkerStep(w) ==
  \/ WorkerRecv(w)
  \/ WorkerExit(w)
  \/ WorkerCheckCancelled(w)
  \/ WorkerCheckDefault(w)
  \/ RetryExhausted(w)
  \/ RetryCancelled(w)
  \/ ExecuteTaskOk(w)
  \/ ExecuteTaskErr(w)
  \/ BackoffElapsed(w)
  \/ BackoffCancelled(w)
  \/ WorkerSend(w)
  \/ WorkerSendCancelled(w)

FairPool ==
  /\ WF_vars(BackupStart)
  /\ WF_vars(FeedSend \/ FeedCancelled \/ FeedFinish)
  /\ \A w \in WorkerIds : WF_vars(WorkerStep(w))
  /\ WF_vars(CloseResults)
  /\ WF_vars(BackupReceive \/ BackupComplete)

SpecPoolFair == InitPoolSpec /\ [][NextPool]_vars /\ FairPool

InitSvcSpec ==
  /\ ctxDone = FALSE
  /\ PoolIdle
  /\ InitSvc
  /\ InitJournal
  /\ JournalDriverIdle
  /\ ProcIdle
  /\ CopyIdle
  /\ CompareIdle
  /\ SyncIdle
  /\ CheckIdle
  /\ ScanIdle
  /\ HistIdle
  /\ DryIdle
  /\ DirStatsIdle

SpecSvc == InitSvcSpec /\ [][NextSvc]_vars

InitJournalSpec ==
  /\ ctxDone = FALSE
  /\ PoolIdle
  /\ SvcIdle
  /\ InitJournal
  /\ InitJournalDriver
  /\ ProcIdle
  /\ CopyIdle
  /\ CompareIdle
  /\ SyncIdle
  /\ CheckIdle
  /\ ScanIdle
  /\ HistIdle
  /\ DryIdle
  /\ DirStatsIdle

SpecJournal == InitJournalSpec /\ [][NextJournal]_vars

InitProcSpec ==
  /\ ctxDone = FALSE
  /\ PoolIdle
  /\ SvcIdle
  /\ JournalIdle
  /\ JournalDriverIdle
  /\ InitProc
  /\ CopyIdle
  /\ CompareIdle
  /\ SyncIdle
  /\ CheckIdle
  /\ ScanIdle
  /\ HistIdle
  /\ DryIdle
  /\ DirStatsIdle

SpecProc == InitProcSpec /\ [][NextProc]_vars

\* The goroutine running processFolders / ProcessDirectory takes a step
\* whenever it can, and so does every file goroutine (each file copy ends).
ProcessorStep ==
  \/ FolderEnter
  \/ FolderAccessFail
  \/ SubdirEnter
  \/ SubdirAccessFail
  \/ FileSpawn
  \/ DirectoryReturn
  \/ FoldersReturn

FileStep(f) ==
  \/ FileInfoOk(f)
  \/ FileInfoErr(f)
  \/ FileAcquire(f)
  \/ FileCopyOk(f)
  \/ FileCopyErr(f)
  \/ FileRelease(f)

FairProc ==
  /\ WF_vars(ProcessorStep)
  /\ \A f \in Files : WF_vars(FileStep(f))

SpecProcFair == InitProcSpec /\ [][NextProc]_vars /\ FairProc

InitCopySpec ==
  /\ ctxDone = FALSE
  /\ PoolIdle
  /\ SvcIdle
  /\ JournalIdle
  /\ JournalDriverIdle
  /\ ProcIdle
  /\ InitCopy
  /\ CompareIdle
  /\ SyncIdle
  /\ CheckIdle
  /\ ScanIdle
  /\ HistIdle
  /\ DryIdle
  /\ DirStatsIdle

SpecCopy == InitCopySpec /\ [][NextCopy]_vars

InitCompareSpec ==
  /\ ctxDone = FALSE
  /\ PoolIdle
  /\ SvcIdle
  /\ JournalIdle
  /\ JournalDriverIdle
  /\ ProcIdle
  /\ CopyIdle
  /\ InitCompare
  /\ SyncIdle
  /\ CheckIdle
  /\ ScanIdle
  /\ HistIdle
  /\ DryIdle
  /\ DirStatsIdle

SpecCompare == InitCompareSpec /\ [][NextCompare]_vars

InitSyncSpec ==
  /\ ctxDone = FALSE
  /\ PoolIdle
  /\ SvcIdle
  /\ JournalIdle
  /\ JournalDriverIdle
  /\ ProcIdle
  /\ CopyIdle
  /\ CompareIdle
  /\ InitSync
  /\ CheckIdle
  /\ ScanIdle
  /\ HistIdle
  /\ DryIdle
  /\ DirStatsIdle

SpecSync == InitSyncSpec /\ [][NextSync]_vars

InitCheckSpec ==
  /\ ctxDone = FALSE
  /\ PoolIdle
  /\ SvcIdle
  /\ JournalIdle
  /\ JournalDriverIdle
  /\ ProcIdle
  /\ CopyIdle
  /\ CompareIdle
  /\ SyncIdle
  /\ InitCheck
  /\ ScanIdle
  /\ HistIdle
  /\ DryIdle
  /\ DirStatsIdle

SpecCheck == InitCheckSpec /\ [][NextCheck]_vars

InitScanSpec ==
  /\ ctxDone = FALSE
  /\ PoolIdle
  /\ SvcIdle
  /\ JournalIdle
  /\ JournalDriverIdle
  /\ ProcIdle
  /\ CopyIdle
  /\ CompareIdle
  /\ SyncIdle
  /\ CheckIdle
  /\ InitScan
  /\ HistIdle
  /\ DryIdle
  /\ DirStatsIdle

SpecScan == InitScanSpec /\ [][NextScan]_vars

InitHistSpec ==
  /\ ctxDone = FALSE
  /\ PoolIdle
  /\ SvcIdle
  /\ JournalIdle
  /\ JournalDriverIdle
  /\ ProcIdle
  /\ CopyIdle
  /\ CompareIdle
  /\ SyncIdle
  /\ CheckIdle
  /\ ScanIdle
  /\ InitHist
  /\ DryIdle
  /\ DirStatsIdle

SpecHist == InitHistSpec /\ [][NextHist]_vars

InitDrySpec ==
  /\ ctxDone = FALSE
  /\ PoolIdle
  /\ SvcIdle
  /\ JournalIdle
  /\ JournalDriverIdle
  /\ ProcIdle
  /\ CopyIdle
  /\ CompareIdle
  /\ SyncIdle
  /\ CheckIdle
  /\ ScanIdle
  /\ HistIdle
  /\ InitDry
  /\ DirStatsIdle

SpecDry == InitDrySpec /\ [][NextDry]_vars

InitDirStatsSpec ==
  /\ ctxDone = FALSE
  /\ PoolIdle
  /\ SvcIdle
  /\ JournalIdle
  /\ JournalDriverIdle
  /\ ProcIdle
  /\ CopyIdle
  /\ CompareIdle
  /\ SyncIdle
  /\ CheckIdle
  /\ ScanIdle
  /\ HistIdle
  /\ DryIdle
  /\ InitDirStats

SpecDirStats == InitDirStatsSpec /\ [][NextDirStats]_vars

\* ------------------------------------------------------- pool: properties
\* The results for task t that left the pool: ranged over already, or still
\* waiting in resultCh.
DeliveredFor(t) == received[t] \o SelectSeq(resultCh, LAMBDA r : r.task = t)

\* A worker is inside the loop body with task t (dequeued, result not yet
\* returned by processTask).
InProcess(t) ==
  \E w \in WorkerIds :
    /\ wtask[w] = t
    /\ wpc[w] \in {"check", "loop", "backoff"}

\* C4: when ExecuteTask has failed retryAttempts (>= 1) times for the task a
\* worker holds, the executor was invoked exactly retryAttempts times for it
\* and is not invoked again (no retry is pending), the outcome processTask
\* returns is the "failed" one, and no task ever has more than one outcome
\* or is processed again once it has one.
C4_RetryExhaustion ==
  /\ \A w \in WorkerIds :
       (retryAttempts >= 1 /\ execFail[w] = retryAttempts) =>
         /\ execCount[w] = retryAttempts
         /\ wpc[w] \in {"loop", "send", "stopped"}
         /\ wpc[w] = "loop" => attempt[w] > retryAttempts
         /\ wpc[w] \in {"send", "stopped"} =>
              /\ wresult[w] = TaskResult(wtask[w], "failed", "attempts exhausted")
              /\ produced[wtask[w]] = <<wresult[w]>>
  /\ \A t \in Tasks :
       /\ Len(produced[t]) <= 1
       /\ Len(produced[t]) = 1 => ~InProcess(t)

C4_Witness ==
  \E w \in WorkerIds :
    /\ retryAttempts = MaxRetry
    /\ execFail[w] = retryAttempts
    /\ wpc[w] = "send"
    /\ produced[wtask[w]] = <<TaskResult(wtask[w], "failed", "attempts exhausted")>>

\* C10: a task that a worker held when it observed the cancellation (the worker
\* returned on <-ctx.Done()) has exactly one delivered TaskResult, "failed"
\* with the cancellation as its error.
C10_InFlightCancelledOutcome ==
  \A w \in WorkerIds :
    (wpc[w] = "stopped" /\ wtask[w] # 0) =>
      DeliveredFor(wtask[w]) = <<TaskResult(wtask[w], "failed", "cancelled")>>

\* C11: while the run is not cancelled, the result stream never holds more
\* than one TaskResult for a task, every TaskResult has status "completed",
\* "skipped" or "failed", and once the stream is closed it holds exactly one
\* TaskResult for every task of the input list.
C11_ExactlyOneResultPerTask ==
  ~ctxDone =>
    \A t \in Tasks :
      /\ Len(DeliveredFor(t)) <= 1
      /\ \A i \in DOMAIN DeliveredFor(t) :
           /\ DeliveredFor(t)[i].task = t
           /\ DeliveredFor(t)[i].status \in {"completed", "skipped", "failed"}
      /\ resultClosed => Len(DeliveredFor(t)) = 1

C11_Witness ==
  /\ ~ctxDone
  /\ resultClosed
  /\ workers = MaxWorkers
  /\ \A t \in Tasks : Len(DeliveredFor(t)) = 1
  /\ \E t \in Tasks : DeliveredFor(t)[1].status = "failed"
  /\ \E t \in Tasks : DeliveredFor(t)[1].status = "completed"

\* C12: whatever retryAttempts (>= 0) is, when processTask returns for a task
\* whose skip check said "do not skip" and that was not cancelled, the
\* executor was invoked at least once for it, and if the first invocation
\* succeeded the outcome is "completed".
C12_ExecutorInvokedAtLeastOnce ==
  \A w \in WorkerIds :
    (/\ wpc[w] = "send"
     /\ wresult[w].status # "skipped"
     /\ wresult[w].err \notin {"skip check failed", "cancelled"}) =>
      /\ execCount[w] >= 1
      /\ (execFail[w] = 0 => wresult[w].status = "completed")

\* C33: whatever the task list, the worker count and the moment of
\* cancellation, once Execute has been called the result channel is
\* eventually closed, every worker and the feeder eventually return, the
\* caller ranging over the results eventually leaves its loop, and nothing is
\* sent on the channel once it is closed (every worker has returned by then).
C33_ResultChannelEventuallyClosed ==
  /\ [](resultClosed => \A w \in WorkerIds : Started(w) => wpc[w] \in {"done", "stopped"})
  /\ bStarted ~> resultClosed
  /\ bStarted ~> (AllWorkersDone /\ feedPc = "done")
  /\ bStarted ~> (bpc = "returned")

C33_Witness ==
  /\ ctxDone
  /\ resultClosed
  /\ bpc = "returned"
  /\ feedPc = "done"
  /\ feedIdx <= NumTasks
  /\ \E w \in WorkerIds : wpc[w] = "stopped"
  /\ \A w \in WorkerIds : Started(w) => wpc[w] \in {"done", "stopped"}

\* ------------------------------------------------- comparator: properties
\* The highest level that did work on the pair.
ExecutedLevel ==
  IF "deep" \in cmpEntered THEN "deep"
  ELSE IF "standard" \in cmpEntered THEN "standard"
  ELSE "quick"

\* C13: a higher validation level is entered only after every lower level
\* reported equivalence: the prefix hash is computed only if the metadata
\* gate passed, and the full-content hash or comparison only if the prefix
\* hashes of the pair are equal (a pair whose prefixes differ is settled at
\* level standard and never reaches the full-content hashes).
C13_LevelsEnteredInCascade ==
  /\ "standard" \in cmpEntered => MetadataEqual(cmpSource, cmpTarget)
  /\ "deep" \in cmpEntered =>
       /\ MetadataEqual(cmpSource, cmpTarget)
       /\ hashPartialFile(cmpSource) = hashPartialFile(cmpTarget)

\* C14: the level reported with a verdict of a compared pair is the highest
\* level the comparator executed on it, not the configured level.
C14_ReportedLevelIsExecutedLevel ==
  (cmpImpl = "scanner" /\ cmpPc = "done" /\ cmpTarget # NilFile) =>
    cmpCompLevel = ExecutedLevel

\* The pair's content differs within the first buffer (prefix) of the files.
DiffersInPrefix(src, tgt) ==
  \E i \in 1..BufferBlocks :
    i <= Len(src.Data) /\ i <= Len(tgt.Data) /\ src.Data[i] # tgt.Data[i]

\* C29: at level quick a pair of equal size whose modification times are at
\* most 2 seconds apart, exactly 2 included, is reported as a match.
C29_QuickToleranceInclusive ==
  (/\ cmpPc = "done"
   /\ cmpLevel = "quick"
   /\ cmpTarget # NilFile
   /\ cmpSource.Size = cmpTarget.Size
   /\ abs(cmpSource.ModTime - cmpTarget.ModTime) <= 2) => cmpStatus = "match"

C29_Witness ==
  /\ cmpPc = "done"
  /\ cmpLevel = "quick"
  /\ cmpTarget # NilFile
  /\ cmpSource.Size = cmpTarget.Size
  /\ abs(cmpSource.ModTime - cmpTarget.ModTime) = 2
  /\ cmpStatus = "match"

C31_HigherLevelMatchOrDiffer ==
  (cmpPc = "done" /\ cmpEarlier.Status = "match") => cmpStatus \in {"match", "differ"}

\* C31 (amended): when the pair was a match at a level, a comparison at a
\* higher level of the same pair returns match, differ, or error when a hash
\* of either file cannot be computed; it never reports the target as missing
\* (status new) nor the source as missing, and a difference it reports was
\* found by a content gate above the metadata gate.
C31_HigherLevelNeverMissing ==
  (cmpPc = "done" /\ cmpEarlier.Status = "match") =>
    /\ cmpStatus \in {"match", "differ", "error"}
    /\ cmpStatus = "differ" => ExecutedLevel # "quick"
    /\ cmpStatus = "error" => cmpImpl = "scanner" /\ ExecutedLevel # "quick"

C31_Witness ==
  /\ cmpPc = "done"
  /\ cmpEarlier = [Level |-> "quick", Status |-> "match"]
  /\ cmpLevel = "deep"
  /\ cmpStatus = "differ"
  /\ cmpSource.Size = cmpTarget.Size

\* ------------------------------------------------------ sync: properties
\* C15: of two consecutive sync runs with no change to source or target
\* between them, the second produces no copied outcome (the first one having
\* left nothing failed behind).
C15_SecondRunCopiesNothing ==
  \A r \in DOMAIN outcomes :
    (r >= 2 /\ outcomes[r - 1] # "failed") => outcomes[r] # "copied"

\* C16: after a sync run without a failed outcome the source file has a
\* target counterpart with the same bytes, the same mode bits and a
\* modification time within the tolerance, whatever target and version
\* history the run started from.
C16_MirrorAfterCleanRun ==
  (syncPc = "ran" /\ outcomes[Len(outcomes)] # "failed") =>
    /\ syncTgt # NoTarget
    /\ syncTgt.Data = syncSrc.Data
    /\ syncTgt.Mode = syncSrc.Mode
    /\ abs(syncTgt.ModTime - syncSrc.ModTime) <= modTimeToleranceSeconds

\* ----------------------------------------------------- check: properties
CheckRunDone(r) == chkRun > r \/ (chkRun = r /\ chkPhase = "done")

\* C17: two check runs over the same unchanged source and target trees emit
\* their per-file comparison results in exactly the same order.
C17_SameOrderEveryRun ==
  \A r \in 2..MaxRuns :
    (chkPhase # "idle" /\ CheckRunDone(r)) => comparisons[r] = comparisons[r - 1]

\* C18: directories are emitted in pre-order, a directory before its
\* descendants and sibling directories in lexicographic order of their
\* names; the directories of the tree are numbered in that order.
C18_DirectoriesInPreOrder ==
  chkPhase # "idle" =>
    \A r \in 1..MaxRuns :
      \A i, j \in DOMAIN dirsVisited[r] :
        i < j => dirsVisited[r][i] < dirsVisited[r][j]

\* ------------------------------------------------------ scan: properties
\* The files the scan emitted.
Emitted ==
  IF scanImpl = "scanner"
    THEN UNION {{scanStats[d][i] : i \in DOMAIN scanStats[d]} : d \in TreeDirs}
    ELSE {svcTasks[i] : i \in DOMAIN svcTasks}

\* The entry, or a directory above it, matches an exclude pattern by its
\* path relative to the source root.
ExcludedByRootPath(p) ==
  \E k \in 1..Len(p) : matchesPattern(SubSeq(p, 1, k), excludePatterns)

\* The files the scan is asked to cover.
FilesInScope ==
  IF scanImpl = "scanner" THEN TreeFiles
  ELSE {f \in TreeFiles : \E d \in FoldersToBackup : IsUnder(f, d)}

\* C21: no file is emitted whose root-relative path matches an exclude
\* pattern, nor one that lies under a directory whose root-relative path
\* matches: an excluded directory's whole subtree is left out.
C21_ExcludedSubtreeEmitsNothing ==
  (scanPc = "done" /\ scanResult = "ok") =>
    \A f \in Emitted : ~ExcludedByRootPath(f)

\* C22: a file is left out only if its root-relative path, or that of a
\* directory above it, matches an exclude pattern, and the counting pass
\* and the detailed pass leave out the same entries (here: they count the
\* same number of files).
C22_PatternsMatchRootRelativePath ==
  (scanPc = "done" /\ scanResult = "ok" /\ broken = {}) =>
    /\ \A f \in FilesInScope \ Emitted : ExcludedByRootPath(f)
    /\ scanImpl = "scanner" => totalFiles = scannedFiles

\* The roots of the scan: a failure there is to be fatal.
ScanRoots == IF scanImpl = "scanner" THEN {ScanRoot} ELSE FoldersToBackup

\* C28: a failing entry below the root does not abort the scan, its error is
\* recorded and the entries that are not below it are still scanned; a
\* failing root makes the scan fail.
C28_EntryFailureContinuesRootFailureFatal ==
  scanPc = "done" =>
    IF broken \cap ScanRoots # {}
      THEN scanResult = "error"
      ELSE /\ scanResult = "ok"
           /\ excludePatterns = {} =>
                \A f \in FilesInScope :
                  (\A b \in broken : f # b /\ ~IsUnder(f, b)) => f \in Emitted

\* ----------------------------------------------------- history: properties
\* The runs that CompleteVersion has completed.
CompletedRuns ==
  {hStarted[i] : i \in {j \in DOMAIN hStarted : hStarted[j] # hCurrent}}

\* C24: once a run is completed, at most maxVersions version files exist,
\* the file of the run completed last is among them, and every file that
\* was removed is older (by id) than every file that was kept.
C24_RetentionKeepsNewest ==
  (hPc = "ready" /\ CompletedRuns # {}) =>
    /\ Cardinality(PresentIds(hFiles)) <= maxVersions
    /\ \A v \in CompletedRuns : (\A w \in CompletedRuns : w.StartTime <= v.StartTime) =>
         hFiles[v.ID] # NoRecord
    /\ \A id \in (1..hStored) \cup {v.ID : v \in CompletedRuns} :
         hFiles[id] = NoRecord => \A kept \in PresentIds(hFiles) : id < kept

\* C25: no two runs get the same id, and the file of a completed run holds
\* that run's record unless retention removed it.
C25_RunIdsUnique ==
  /\ \A i, j \in DOMAIN hStarted : i # j => hStarted[i].ID # hStarted[j].ID
  /\ \A v \in CompletedRuns : hFiles[v.ID] \in {v, NoRecord}

\* C26: a listing of the history shows the runs newest first by run id.
C26_HistoryNewestFirst ==
  \A i, j \in DOMAIN hHistory : i < j => hHistory[i].ID >= hHistory[j].ID

\* C27: a stored index or version file that cannot be parsed does not keep
\* the journal from opening: the constructor succeeds and the run proceeds.
C27_CorruptJournalDoesNotAbort ==
  hPc # "failed"

\* ---------------------------------------------------- dry run: properties
\* C32: a dry run invokes no mutating storage operation: no directory is
\* created at the target or anywhere else (and no file or journal file is
\* written); the directories that exist are those that existed before.
C32_DryRunMutatesNothing == dryDirs = dryDirs0

\* ------------------------------------------ directory statistics: properties
\* C37: every recorded file is counted in the per-directory statistics of
\* exactly one folder, the folder that holds it, whatever order the map
\* iteration takes; hence the per-directory TotalFiles values sum to the
\* overall TotalFiles.
C37_FileCountedInItsFolder ==
  dsPc = "open" =>
    \A d \in dsFolders :
      dsDirectories[d].TotalFiles =
        Cardinality({r \in dsRecorded : FolderContains(d, r.Path)})

\* ---------------------------------------------------- service: properties
\* RecordFile is running for task t.
InRecordFile(t) ==
  tpc[t] \in {"rf_read", "rf_append", "rf_total_read", "rf_total_write", "rf_index"}

\* The tasks whose RecordFile call has returned.
Recorded == {t \in Tasks : tpc[t] \in {"exit", "finished"}}

\* C1: a run that was not cancelled and whose scan succeeded ends (Backup
\* returns) only after every scanned file reached a terminal outcome, even
\* when some file failed.
C1_FileFailureDoesNotAbortRun ==
  (sPc = "returned" /\ sErr # "scan failed" /\ ~ctxDone) =>
    \A t \in Tasks : tpc[t] = "finished"

\* C2: when Backup has returned, on whatever path, CompleteVersion was called
\* for the version StartNewVersion opened (its version file was written).
C2_CompleteRunOnEveryExit ==
  sPc = "returned" => versionFiles[1].written = "complete"

\* C7: once the RecordFile calls made so far have all returned, the open
\* version holds one change per call and TotalFiles equals their number.
C7_ConcurrentRecordsSerialized ==
  (currentVer.open /\ \A t \in Tasks : ~InRecordFile(t)) =>
    /\ Len(currentVer.Changes) = Cardinality(Recorded)
    /\ currentVer.Total.TotalFiles = Cardinality(Recorded)

\* C8: once the context is cancelled, no task that had not begun is started.
C8_NoFileStartedAfterCancel ==
  [][ctxDone => \A t \in Tasks : (tpc[t] = "none" => tpc'[t] = "none")]_vars

\* C6: a RecordFile call whose status is "failed" leaves the index entry of
\* its path as it was before the call.
C6_FailedRecordLeavesIndex ==
  [][\A t \in Tasks :
       (tpc[t] = "rf_index" /\ tpc'[t] = "exit" /\ rstatus[t] = "failed") =>
         index'[t] = index[t]]_vars

\* C34: when Backup has returned, with or without an error, no task goroutine
\* it started is still at work: no file is being compared, copied or
\* verified, and no RecordFile call is pending or running.
C34_NoTaskRunsAfterReturn ==
  sPc = "returned" => \A t \in Tasks : tpc[t] \in {"none", "exit", "finished"}

\* The task goroutines whose incrementStats call has returned.
Incremented == {t \in Tasks : rstatus[t] # "none" /\ tpc[t] \notin {"is_load", "is_cas"}}

\* C39: incrementStats loses no update under concurrent task goroutines: at
\* every moment each counter of the stats equals the number of task
\* goroutines whose incrementStats call has returned with that status, so
\* once all tasks have finished FilesProcessed = FilesCopied + FilesSkipped +
\* FilesFailed = the number of tasks processed.
C39_IncrementStatsLosesNoUpdate ==
  /\ stats.FilesProcessed = Cardinality(Incremented)
  /\ stats.FilesCopied = Cardinality({t \in Incremented : rstatus[t] = "copied"})
  /\ stats.FilesSkipped = Cardinality({t \in Incremented : rstatus[t] = "skipped"})
  /\ stats.FilesFailed = Cardinality({t \in Incremented : rstatus[t] = "failed"})
  /\ (\A t \in Tasks : tpc[t] = "finished") =>
       /\ stats.FilesProcessed = stats.FilesCopied + stats.FilesSkipped + stats.FilesFailed
       /\ stats.FilesProcessed = NumTasks

C39_Witness ==
  /\ \A t \in Tasks : tpc[t] = "finished"
  /\ concurrency > 1
  /\ stats.FilesProcessed = NumTasks
  /\ stats.FilesCopied >= 1
  /\ stats.FilesFailed >= 1
  /\ \E t \in Tasks : oldStats[t].val.FilesProcessed = NumTasks - 1

\* ---------------------------------------------------- journal: properties
\* C5: after a crash, every version file is absent (its prior content) or
\* completely written. (index.json only ever changes by the rename of a
\* completely written index.json.tmp.)
C5_CrashLeavesWholeFiles ==
  jPc = "crashed" =>
    \A id \in VersionIds : versionFiles[id].written \in {"absent", "complete"}

\* C35: runs are isolated in the journal: while a run is in progress the
\* outcomes recorded for it stay recorded, in order, until CompleteVersion has
\* written them to the run's version file; no step of the manager (a
\* StartNewVersion in particular) drops them.  (A killed process is left
\* aside.)
C35_RunsIsolated ==
  [][(/\ currentVer.open
      /\ currentVer.Changes # <<>>
      /\ jPc # "crashed"
      /\ jPc' # "crashed") =>
       \/ /\ currentVer'.open
          /\ currentVer'.ID = currentVer.ID
          /\ Len(currentVer'.Changes) >= Len(currentVer.Changes)
          /\ SubSeq(currentVer'.Changes, 1, Len(currentVer.Changes)) = currentVer.Changes
       \/ /\ ~currentVer'.open
          /\ versionFiles'[currentVer.ID] = File("complete", currentVer)]_vars

\* C36: after any sequence of RecordFile calls within a run, each with status
\* copied, skipped or failed, the run's totals satisfy TotalFiles =
\* FilesCopied + FilesSkipped + FilesFailed = the number of recorded changes.
C36_TotalsMatchChanges ==
  /\ currentVer.Total.TotalFiles =
       currentVer.Total.FilesCopied + currentVer.Total.FilesSkipped
         + currentVer.Total.FilesFailed
  /\ currentVer.Total.TotalFiles = Len(currentVer.Changes)
  /\ \A id \in VersionIds :
       versionFiles[id].written = "complete" =>
         /\ versionFiles[id].data.Total.TotalFiles = Len(versionFiles[id].data.Changes)
         /\ versionFiles[id].data.Total.TotalFiles =
              versionFiles[id].data.Total.FilesCopied
                + versionFiles[id].data.Total.FilesSkipped
                + versionFiles[id].data.Total.FilesFailed

C36_Witness ==
  /\ currentVer.open
  /\ jPc = "ready"
  /\ Len(currentVer.Changes) = MaxRecords
  /\ currentVer.Total.FilesFailed >= 1
  /\ currentVer.Total.FilesCopied >= 1

\* -------------------------------------------------- processor: properties
Min(a, b) == IF a < b THEN a ELSE b

\* The file copies executing now.
Copying == {f \in Files : fpc[f] = "copying"}

\* C3: the copies executing in parallel never exceed the smaller of the two
\* thread budgets.
C3_ParallelCopiesWithinMinBudget ==
  Cardinality(Copying) <= Min(srcMaxThreads, tgtMaxThreads)

\* C19: a directory is reported complete only after every file task of it
\* reached a terminal state, and every directory that was started is reported
\* complete exactly once: never twice, and once by the time the run returns.
C19_DirectoryReportedOnceWhenFilesDone ==
  \A d \in Dirs :
    /\ trReported[d] >= 1 => \A f \in FilesOf(d) : fpc[f] = "done"
    /\ trReported[d] <= 1
    /\ (pPc = "returned" /\ dirState[d] # "none") => trReported[d] = 1

\* C20: when the source or the target is an HDD, directories are processed
\* one at a time: no file of a directory is being copied while a file copy of
\* another directory (a subdirectory included) is still in progress.
C20_HddOneDirectoryAtATime ==
  (srcStorageType = "hdd" \/ tgtStorageType = "hdd") =>
    \A f, g \in Files :
      (fpc[f] = "copying" /\ fpc[g] = "copying") => DirOf(f) = DirOf(g)

\* C38: ProcessDirectory terminates on the directory tree without deadlock:
\* the errors sent to a directory's error channel never exceed its capacity
\* (the number of entries), so a send never blocks; the slots taken from the
\* semaphore never exceed its capacity; whenever no ProcessDirectory call is
\* active no slot is held and no file goroutine is still running; and the run
\* over the folders eventually returns.
C38_ProcessDirectoryTerminates ==
  /\ [](\A d \in Dirs : dirErrs[d] <= Len(Entries(d)))
  /\ [](pSem <= SemCapacity)
  /\ []((pStack = <<>>) => (pSem = 0 /\ \A f \in Files : fpc[f] \in {"none", "done"}))
  /\ <>(pPc = "returned")

C38_Witness ==
  /\ pPc = "returned"
  /\ pErr = "nil"
  /\ pSem = 0
  /\ srcMaxThreads = 1
  /\ \A f \in Files : fpc[f] = "done"
  /\ \A d \in Dirs : dirState[d] = "finished"

\* C40: after the run over the folders has returned, the tracker's overall
\* Processed count equals the number of files for which UpdateProgress was
\* called, and each directory's Done count equals the number of its own files
\* for which UpdateProgress was called (no update is dropped or counted
\* against another directory).
C40_ProgressCountsEveryUpdate ==
  pPc = "returned" =>
    /\ trProcessed = Cardinality(trUpdated)
    /\ \A d \in Dirs : trDone[d] = Cardinality(trUpdated \cap FilesOf(d))

\* ------------------------------------------------------- copy: properties
\* C9: when Copy has returned the cancellation error, the destination file
\* does not exist.
C9_CancelledCopyRemovesPartial ==
  (cPc = "returned" /\ cErr = "cancelled") => ~dst.exists

\* C23: when Copy fails with an I/O error after the destination was created
\* (a read, write, sync or attribute error), the destination no longer
\* exists once Copy has returned.
C23_FailedCopyRemovesPartial ==
  (cPc = "returned" /\ cErr \in {"read error", "write error", "finish failed"}) =>
    ~dst.exists

====
